---- MODULE Spec2Model ----
(***************************************************************************)
(* Verification model of the download-mp3 repository.                      *)
(*                                                                         *)
(* Two subsystems are modelled:                                            *)
(*  - the Download Manager (src/components/structured-data.tsx, the file   *)
(*    that holds lib/download-manager): the task registry activeDownloads, *)
(*    the interval timers of simulateDownloadProgress and the operations   *)
(*    start / pause / resume / cancel / get / clear;                       *)
(*  - the yt-dlp download endpoint (src/unnamed/part_003): the GET handler *)
(*    with its scratch directory, the external tool and cleanupTempFiles.  *)
(*                                                                         *)
(* Byte counts are integers (bytes).  A percentage is kept in hundredths   *)
(* of a percent (10000 = 100%), which is exactly the grid produced by      *)
(* Math.round(p * 100) / 100.                                              *)
(***************************************************************************)
EXTENDS Integers, Sequences, FiniteSets, TLC

\* ------------------------------------------------------------------ bounds
\* Number of setInterval calls the model explores; every task start and every
\* resume makes one, so it also bounds the number of tasks.
MaxTimers == 3

\* Number of GET requests the download endpoint serves concurrently.
MaxRequests == 2

\* Largest byte count given to calculatePercentage and calculateETA.
MaxBytes == 7

\* Largest speed (bytes per second) given to calculateETA.
MaxSpeed == 4

\* Largest number of streams a source offers to the format selectors.
MaxStreams == 4

\* Longest list of records given to serializeHistory.
MaxRecords == 2

\* Number of saveDownload calls the model explores.
MaxSaves == 3

\* ------------------------------------------------------- program constants
\* Minimum audio bitrate for MP3 extraction, kbps.
MIN_AUDIO_BITRATE == 128
\* Math.round(percentage * 100) / 100 : two decimals, so 1% = 100 hundredths.
PctScale == 100
\* setInterval period in ms; bytesPerInterval = speed * 0.1.
IntervalMs == 100

\* -------------------------------------------------------------- input sets
\* Random suffixes of generateTaskId (Math.random().toString(36)...).
Suffixes == {0, 1}
\* File size estimates a caller passes as quality.fileSize (bytes); the positive
\* one is reached exactly by some tick sequences and within half a hundredth
\* of a percent by others.
Sizes == {0, 119001}
\* baseSpeed = 500000 + Math.random() * 1500000  (bytes per second).
BaseSpeeds == {500000, 1500000}
\* speed = baseSpeed * (0.8 + Math.random() * 0.4), factor in percent.
SpeedFactors == {80, 119}
\* Bitrates (kbps) of a source's mp3 option; 0 stands for an absent bitrate.
Bitrates == {0, 96, 128, 320}

\* Arguments of calculatePercentage: byte counts below zero, within the total
\* and beyond it; totals that are negative, zero and positive.
Downloaded == (-MaxBytes)..(2 * MaxBytes)
Totals == -1..MaxBytes
\* Arguments of calculateETA.
Remainders == -1..MaxBytes
Speeds == -1..MaxSpeed

\* Work tokens randomUUID() can return.  All UUIDs have the same length; the
\* two-character tokens here share their first character.
Tokens == {<<"a", "a">>, <<"a", "b">>}
\* Extensions of the files yt-dlp writes under a work token: the two output
\* formats of the endpoint and the ".part" file of an unfinished transfer.
Exts == {"mp4", "mp3", "part"}
\* The format parameter of a request.
Formats == {"mp4", "mp3"}
Requests == 1..MaxRequests

\* An optional field that is not set (pausedAt?, completedAt?, error?).
Undefined == "undefined"
\* The value Date.now() stores in startedAt, pausedAt and completedAt.  No code
\* of the repository reads these values back, so the model keeps only whether
\* the field is set.
Timestamp == "set"

\* The millisecond in which the calls of Spec are made.  Time enters the
\* download manager only through generateTaskId, and calls made within one
\* millisecond are the case in which an id rests on its random suffix alone.
Clock == {1}
TaskIds == Clock \X Suffixes
\* An id generateTaskId never returns: stands for any unknown id.
NoId == <<0, 0>>

VARIABLES
    now,               \* Date.now()
    activeDownloads,   \* Map<string, DownloadTask>: id -> task
    downloadIntervals, \* Map<string, Timeout>: id -> timer handle
    timers,            \* live (not cleared) intervals: handle -> closure
    nextHandle,        \* handles handed out by setInterval so far
    issued,            \* ids returned by generateTaskId so far
    cancelled,         \* ids for which cancelDownload has returned normally
    lastOp,            \* the last call and its outcome
    files,             \* names of the files in TEMP_DIR
    pc,                \* GET handler r: where it stands
    req,               \* GET handler r: its locals (fileId, ext, ...)
    tool,              \* GET handler r: what became of its yt-dlp process
    resp,              \* GET handler r: the response it returned
    held,              \* the task value a caller of the manager holds
    api,               \* POST /api/download: the last request and its response
    calc,              \* arguments and results of the progress calculations
    selection,         \* available streams, requested quality, formats picked
    trip,              \* a list of records, its JSON text, the list parsed
    store,             \* localStorage and the calls of the history manager
    link               \* a pasted string and what the URL parser made of it

managerVars == <<now, activeDownloads, downloadIntervals, timers, nextHandle,
                 issued, cancelled, lastOp>>

runnerVars == <<files, pc, req, tool, resp>>

\* State of the specifications that look at one part of the program alone.
auxVars == <<held, api, calc, selection, trip, store, link>>

vars == <<now, activeDownloads, downloadIntervals, timers, nextHandle,
          issued, cancelled, lastOp, files, pc, req, tool, resp,
          held, api, calc, selection, trip, store, link>>

\* ----------------------------------------------------------- pure helpers
Min(a, b) == IF a <= b THEN a ELSE b
Max(a, b) == IF a >= b THEN a ELSE b

\* Math.round(n / d) for d > 0: floor(n/d + 1/2), split to stay in range.
RoundDiv(n, d) == (n \div d) + ((2 * (n % d) + d) \div (2 * d))

\* Math.ceil(n / d) for d > 0.
CeilDiv(n, d) == -((-n) \div d)

\* Removes key k from map f (Map.prototype.delete).
MapDelete(f, k) == [x \in (DOMAIN f) \ {k} |-> f[x]]

\* Adds or overwrites key k in map f (Map.prototype.set).
MapSet(f, k, v) == [x \in (DOMAIN f) \cup {k} |-> IF x = k THEN v ELSE f[x]]

\* Mutant: the id is made of the timestamp alone.
generateTaskId_IgnoresSuffix(ms, suffix) == <<ms, 0>>

\* generateTaskId: `dl_${Date.now()}_${random suffix}`.
generateTaskId(ms, suffix) == <<ms, suffix>>

createInitialProgress(totalBytes) ==
    [percentage |-> 0, downloadedBytes |-> 0, totalBytes |-> totalBytes,
     speed |-> 0, estimatedTimeRemaining |-> 0]

\* Mutant: the result is not clamped to 0..100.
calculatePercentage_NoClamp(downloadedBytes, totalBytes) ==
    IF totalBytes <= 0 THEN 0
    ELSE ((downloadedBytes \div totalBytes) * 100 * PctScale)
         + RoundDiv((downloadedBytes % totalBytes) * 100 * PctScale, totalBytes)

\* Percentage in hundredths of a percent.
calculatePercentage(downloadedBytes, totalBytes) ==
    IF totalBytes <= 0 THEN 0
    ELSE Min(100 * PctScale,
             Max(0, ((downloadedBytes \div totalBytes) * 100 * PctScale)
                    + RoundDiv((downloadedBytes % totalBytes) * 100 * PctScale,
                               totalBytes)))

\* Mutant: Math.floor in place of Math.ceil.
calculateETA_RoundsDown(remainingBytes, speed) ==
    IF speed <= 0 \/ remainingBytes <= 0 THEN 0
    ELSE remainingBytes \div speed

calculateETA(remainingBytes, speed) ==
    IF speed <= 0 \/ remainingBytes <= 0 THEN 0
    ELSE CeilDiv(remainingBytes, speed)

\* Mutant: the new byte count is used for the percentage but not stored.
updateProgress_KeepsOldBytes(task, downloadedBytes, speed) ==
    [percentage |-> calculatePercentage(downloadedBytes, task.progress.totalBytes),
     downloadedBytes |-> task.progress.downloadedBytes,
     totalBytes |-> task.progress.totalBytes,
     speed |-> speed,
     estimatedTimeRemaining |->
         calculateETA(task.progress.totalBytes - downloadedBytes, speed)]

updateProgress(task, downloadedBytes, speed) ==
    [percentage |-> calculatePercentage(downloadedBytes, task.progress.totalBytes),
     downloadedBytes |-> downloadedBytes,
     totalBytes |-> task.progress.totalBytes,
     speed |-> speed,
     estimatedTimeRemaining |->
         calculateETA(task.progress.totalBytes - downloadedBytes, speed)]

\* Live timers whose closure is bound to task id.
TimersOf(id) == {h \in DOMAIN timers : timers[h].taskId = id}

Present(id) == id \in DOMAIN activeDownloads

\* Ids a caller passes: every id handed out so far and an unknown one.
CallIds == issued \cup {NoId}

Op(op, id, result) == [op |-> op, id |-> id, result |-> result]

\* Locals of a handler that has not started.
NoRequest == [fileId |-> <<>>, format |-> "none", ext |-> "none",
              target |-> <<>>, listing |-> {}, body |-> <<>>,
              ioError |-> FALSE]
\* execs: how often the handler has run the tool; outcome: how the last run
\* ended; hasOutput: whether it left a file under the work token.
NoTool == [execs |-> 0, outcome |-> "none", hasOutput |-> FALSE]
NoResponse == [status |-> 0, error |-> "", body |-> <<>>]

\* A caller that holds no value of the manager yet.  kind tells how a value
\* was obtained: "reference" is the object startDownload returned, "copy" the
\* spread copy of getDownloadTask / getAllDownloads, "progress" the spread copy
\* of getProgress; handed is the value as it was handed out, own the caller's
\* copy as it is now.
NoHandle == [kind |-> "none", id |-> NoId, handed |-> "nothing",
             own |-> "nothing"]

\* The part of a QualityOption the POST handler and startMP3Download look at.
NoOption == [format |-> "none", available |-> FALSE, bitrate |-> 0]
\* A request body without videoInfo and without quality.
NoBody == [hasVideoInfo |-> FALSE, hasQuality |-> FALSE, quality |-> NoOption,
           hasMp3 |-> FALSE, mp3 |-> NoOption]
ApiResponse(status, code, taskId) ==
    [status |-> status, code |-> code, taskId |-> taskId]
\* No request has been made.
NoApi == [request |-> NoBody, response |-> ApiResponse(0, "", NoId)]

\* No stream (null of getBestFormat; no format matched the selector).
NoStream == [itag |-> 0, qualityLabel |-> "none", height |-> 0,
             hasVideo |-> FALSE, hasAudio |-> FALSE, ext |-> "none",
             bitrate |-> 0]
\* What a selector settled on: one stream that has video and audio
\* ("single"), a video stream merged with an audio stream ("merged"), or
\* nothing ("none").
NoFormat == [kind |-> "none", video |-> NoStream, audio |-> NoStream]
\* No source has been looked at.
NoSelection == [streams |-> {}, quality |-> "none", audioOnly |-> FALSE,
                directiveDone |-> FALSE, directive |-> NoFormat,
                bestDone |-> FALSE, best |-> NoStream]

\* No list has been serialized.
NoTrip == [records |-> <<>>, op |-> "none", text |-> <<>>, output |-> <<>>]
\* localStorage.getItem returns null.
NoItem == [present |-> FALSE, text |-> <<>>]
\* No record has been returned.
NoRecord == [id |-> <<>>, title |-> <<>>, url |-> <<>>, platform |-> <<>>,
             format |-> <<>>, quality |-> <<>>, downloadedAt |-> <<>>,
             fileSize |-> 0]
\* The history manager before its first call: calls counts saveDownload,
\* saved lists the records saved and not deleted or cleared since, most
\* recent first, returned is what saveDownload returned last and listed what
\* getHistory returned last.
NoStore == [item |-> NoItem, calls |-> 0, saved |-> <<>>, op |-> "none",
            returned |-> NoRecord, listed |-> <<>>]
\* No string has been pasted.
NoLink == [url |-> <<>>, op |-> "none", valid |-> FALSE,
             videoId |-> "null",
             result |-> [platform |-> "null", videoId |-> "null",
                         originalUrl |-> <<>>]]

\* Nothing has been calculated; op is the calculation made last.
NoCalc == [op |-> "none", downloaded |-> 0, total |-> 0, percentage |-> 0,
           remaining |-> 0, speed |-> 0, eta |-> 0]

\* ------------------------------------------------------------------- Init
\* The download manager and the download endpoint after module load.
InitProgram ==
    /\ now = 1
    /\ activeDownloads = <<>>
    /\ downloadIntervals = <<>>
    /\ timers = <<>>
    /\ nextHandle = 0
    /\ issued = {}
    /\ cancelled = {}
    /\ lastOp = Op("none", NoId, "none")
    /\ files = {}
    /\ pc = [r \in Requests |-> "idle"]
    /\ req = [r \in Requests |-> NoRequest]
    /\ tool = [r \in Requests |-> NoTool]
    /\ resp = [r \in Requests |-> NoResponse]
    /\ held = NoHandle
    /\ api = NoApi

\* The library functions have not been called.
InitLib ==
    /\ trip = NoTrip
    /\ store = NoStore
    /\ link = NoLink

Init ==
    /\ InitProgram
    /\ calc = NoCalc
    /\ selection = NoSelection
    /\ InitLib

\* The progress calculations on arguments drawn from the input sets.
InitCalc ==
    /\ InitProgram
    /\ calc \in [op : {"none"}, downloaded : Downloaded, total : Totals,
                 percentage : {0}, remaining : Remainders, speed : Speeds,
                 eta : {0}]
    /\ selection = NoSelection
    /\ InitLib

\* calculatePercentage applied to a byte count and the total drawn at the
\* start.
CalculatePercentage ==
    /\ \E downloadedBytes \in Downloaded :
         calc' = [calc EXCEPT
                    !.op = "percentage",
                    !.downloaded = downloadedBytes,
                    !.percentage = calculatePercentage(downloadedBytes,
                                                       calc.total)]
    /\ UNCHANGED <<managerVars, runnerVars, held, api, selection, trip,
                   store, link>>

\* calculateETA applied to the arguments drawn at the start.
CalculateETA ==
    /\ calc' = [calc EXCEPT
                  !.op = "eta",
                  !.eta = calculateETA(calc.remaining, calc.speed)]
    /\ UNCHANGED <<managerVars, runnerVars, held, api, selection, trip,
                   store, link>>


\* --------------------------------------------------- simulateDownloadProgress
\* The body of simulateDownloadProgress outside the callback: look the task up,
\* draw baseSpeed, setInterval, downloadIntervals.set(taskId, interval).
simulateDownloadProgress(registry, intervals, taskId, baseSpeed) ==
    IF taskId \notin DOMAIN registry
    THEN /\ timers' = timers
         /\ downloadIntervals' = intervals
         /\ nextHandle' = nextHandle
    ELSE /\ nextHandle' = nextHandle + 1
         /\ timers' = MapSet(timers, nextHandle + 1,
                             [taskId |-> taskId, baseSpeed |-> baseSpeed])
         /\ downloadIntervals' = MapSet(intervals, taskId, nextHandle + 1)

\* Mutant: completion sets the status and the timestamp and leaves the
\* progress as the last update computed it.
CompleteTask_KeepsProgress(task) ==
    [task EXCEPT !.status = "completed",
                 !.completedAt = Timestamp]

\* The task a tick leaves behind once percentage >= 100.
CompleteTask(task) ==
    [task EXCEPT !.status = "completed",
                 !.completedAt = Timestamp,
                 !.progress.percentage = 100 * PctScale,
                 !.progress.downloadedBytes = task.progress.totalBytes,
                 !.progress.estimatedTimeRemaining = 0]

\* Mutant: the bytes of an interval are subtracted instead of added.
tick_SubtractsBytes(h, factor) ==
    LET taskId == timers[h].taskId IN
    IF taskId \notin DOMAIN activeDownloads
         \/ activeDownloads[taskId].status # "downloading"
    THEN \* clearInterval(interval); downloadIntervals.delete(taskId); return
         /\ timers' = MapDelete(timers, h)
         /\ downloadIntervals' = MapDelete(downloadIntervals, taskId)
         /\ lastOp' = Op("tick", taskId, "stopped")
         /\ UNCHANGED <<now, activeDownloads, nextHandle, issued, cancelled>>
    ELSE
      LET currentTask == activeDownloads[taskId]
          speed == (timers[h].baseSpeed * factor) \div 100
          bytesPerInterval == (speed * IntervalMs) \div 1000
          newDownloadedBytes ==
              Min(currentTask.progress.downloadedBytes - bytesPerInterval,
                  currentTask.progress.totalBytes)
          updated == [currentTask EXCEPT !.progress =
                         updateProgress(currentTask, newDownloadedBytes, speed)]
      IN
      IF updated.progress.percentage >= 100 * PctScale
      THEN /\ activeDownloads' =
                  [activeDownloads EXCEPT ![taskId] = CompleteTask(updated)]
           /\ timers' = MapDelete(timers, h)
           /\ downloadIntervals' = MapDelete(downloadIntervals, taskId)
           /\ lastOp' = Op("tick", taskId, "completed")
           /\ UNCHANGED <<now, nextHandle, issued, cancelled>>
      ELSE /\ activeDownloads' = [activeDownloads EXCEPT ![taskId] = updated]
           /\ lastOp' = Op("tick", taskId, "advanced")
           /\ UNCHANGED <<now, downloadIntervals, timers, nextHandle,
                          issued, cancelled>>

\* The setInterval callback of timer h; factor is the speed variation drawn
\* by Math.random() in this firing.
tick(h, factor) ==
    LET taskId == timers[h].taskId IN
    IF taskId \notin DOMAIN activeDownloads
         \/ activeDownloads[taskId].status # "downloading"
    THEN \* clearInterval(interval); downloadIntervals.delete(taskId); return
         /\ timers' = MapDelete(timers, h)
         /\ downloadIntervals' = MapDelete(downloadIntervals, taskId)
         /\ lastOp' = Op("tick", taskId, "stopped")
         /\ UNCHANGED <<now, activeDownloads, nextHandle, issued, cancelled>>
    ELSE
      LET currentTask == activeDownloads[taskId]
          speed == (timers[h].baseSpeed * factor) \div 100
          bytesPerInterval == (speed * IntervalMs) \div 1000
          newDownloadedBytes ==
              Min(currentTask.progress.downloadedBytes + bytesPerInterval,
                  currentTask.progress.totalBytes)
          updated == [currentTask EXCEPT !.progress =
                         updateProgress(currentTask, newDownloadedBytes, speed)]
      IN
      IF updated.progress.percentage >= 100 * PctScale
      THEN /\ activeDownloads' =
                  [activeDownloads EXCEPT ![taskId] = CompleteTask(updated)]
           /\ timers' = MapDelete(timers, h)
           /\ downloadIntervals' = MapDelete(downloadIntervals, taskId)
           /\ lastOp' = Op("tick", taskId, "completed")
           /\ UNCHANGED <<now, nextHandle, issued, cancelled>>
      ELSE /\ activeDownloads' = [activeDownloads EXCEPT ![taskId] = updated]
           /\ lastOp' = Op("tick", taskId, "advanced")
           /\ UNCHANGED <<now, downloadIntervals, timers, nextHandle,
                          issued, cancelled>>

Tick ==
    /\ \E h \in DOMAIN timers : \E factor \in SpeedFactors : tick(h, factor)
    /\ UNCHANGED <<runnerVars, auxVars>>

\* ------------------------------------------------------------ startDownload
NewTask(totalBytes) ==
    [status |-> "downloading",
     progress |-> createInitialProgress(totalBytes),
     startedAt |-> Timestamp,
     pausedAt |-> Undefined,
     completedAt |-> Undefined,
     error |-> Undefined]

\* quality = [format, fileSize, bitrate, available]; suffix and baseSpeed are
\* the two Math.random() draws (generateTaskId, simulateDownloadProgress).
startDownload(caller, quality, suffix, baseSpeed) ==
    IF ~quality.available
    THEN /\ lastOp' = Op(caller, NoId, "QualityUnavailable")
         /\ UNCHANGED <<now, activeDownloads, downloadIntervals, timers,
                        nextHandle, issued, cancelled>>
    ELSE LET taskId == generateTaskId(now, suffix)
             registry == MapSet(activeDownloads, taskId,
                                NewTask(quality.fileSize))
         IN /\ activeDownloads' = registry
            /\ simulateDownloadProgress(registry, downloadIntervals,
                                        taskId, baseSpeed)
            /\ issued' = issued \cup {taskId}
            /\ lastOp' = Op(caller, taskId, "ok")
            /\ UNCHANGED <<now, cancelled>>

Qualities(format, bitrates) ==
    [format : {format}, fileSize : Sizes, bitrate : bitrates,
     available : BOOLEAN]

\* Room left within the bound for one more timer.
CanCreate == nextHandle < MaxTimers

\* Math.random() does not return a value it returned before: the suffix drawn
\* is not the suffix of an id handed out earlier.
FreshSuffix(suffix) == \A id \in issued : id[2] # suffix

StartDownload ==
    \E quality \in Qualities("mp4", {0}), suffix \in Suffixes,
       baseSpeed \in BaseSpeeds :
        /\ CanCreate
        /\ FreshSuffix(suffix)
        /\ startDownload("startDownload", quality, suffix, baseSpeed)
        /\ UNCHANGED <<runnerVars, auxVars>>

\* startMP3Download: mp3 is the result of videoInfo.qualities.find(format =
\* 'mp3'); hasMp3 = FALSE stands for a source without an mp3 option.
startMP3Download(hasMp3, mp3Quality, suffix, baseSpeed) ==
    IF ~hasMp3 \/ ~mp3Quality.available
    THEN /\ lastOp' = Op("startMP3Download", NoId, "Mp3Unavailable")
         /\ UNCHANGED <<now, activeDownloads, downloadIntervals, timers,
                        nextHandle, issued, cancelled>>
    ELSE IF mp3Quality.bitrate # 0 /\ mp3Quality.bitrate < MIN_AUDIO_BITRATE
    THEN /\ lastOp' = Op("startMP3Download", NoId, "BitrateTooLow")
         /\ UNCHANGED <<now, activeDownloads, downloadIntervals, timers,
                        nextHandle, issued, cancelled>>
    ELSE startDownload("startMP3Download", mp3Quality, suffix, baseSpeed)

StartMP3Download ==
    \E hasMp3 \in BOOLEAN, mp3Quality \in Qualities("mp3", Bitrates),
       suffix \in Suffixes, baseSpeed \in BaseSpeeds :
        /\ CanCreate
        /\ FreshSuffix(suffix)
        /\ startMP3Download(hasMp3, mp3Quality, suffix, baseSpeed)
        /\ UNCHANGED <<runnerVars, auxVars>>


\* ------------------------------------------------- pause / resume / cancel
\* Mutant: the status guard of pauseDownload is missing.
pauseDownload_NoStatusCheck(taskId) ==
    IF taskId \notin DOMAIN activeDownloads
    THEN /\ lastOp' = Op("pauseDownload", taskId, "NotFound")
         /\ UNCHANGED <<now, activeDownloads, downloadIntervals, timers,
                        nextHandle, issued, cancelled>>
    ELSE /\ IF taskId \in DOMAIN downloadIntervals
            THEN /\ timers' = MapDelete(timers, downloadIntervals[taskId])
                 /\ downloadIntervals' = MapDelete(downloadIntervals, taskId)
            ELSE UNCHANGED <<timers, downloadIntervals>>
         /\ activeDownloads' =
                [activeDownloads EXCEPT ![taskId].status = "paused",
                                        ![taskId].pausedAt = Timestamp,
                                        ![taskId].progress.speed = 0]
         /\ lastOp' = Op("pauseDownload", taskId, "ok")
         /\ UNCHANGED <<now, nextHandle, issued, cancelled>>

\* Mutant: pauseDownload leaves the interval running.
pauseDownload_KeepsTimer(taskId) ==
    IF taskId \notin DOMAIN activeDownloads
    THEN /\ lastOp' = Op("pauseDownload", taskId, "NotFound")
         /\ UNCHANGED <<now, activeDownloads, downloadIntervals, timers,
                        nextHandle, issued, cancelled>>
    ELSE IF activeDownloads[taskId].status # "downloading"
    THEN /\ lastOp' = Op("pauseDownload", taskId, "CannotPause")
         /\ UNCHANGED <<now, activeDownloads, downloadIntervals, timers,
                        nextHandle, issued, cancelled>>
    ELSE /\ activeDownloads' =
                [activeDownloads EXCEPT ![taskId].status = "paused",
                                        ![taskId].pausedAt = Timestamp,
                                        ![taskId].progress.speed = 0]
         /\ lastOp' = Op("pauseDownload", taskId, "ok")
         /\ UNCHANGED <<now, downloadIntervals, timers, nextHandle, issued,
                        cancelled>>

\* Mutant: pauseDownload does not zero the speed.
pauseDownload_KeepsSpeed(taskId) ==
    IF taskId \notin DOMAIN activeDownloads
    THEN /\ lastOp' = Op("pauseDownload", taskId, "NotFound")
         /\ UNCHANGED <<now, activeDownloads, downloadIntervals, timers,
                        nextHandle, issued, cancelled>>
    ELSE IF activeDownloads[taskId].status # "downloading"
    THEN /\ lastOp' = Op("pauseDownload", taskId, "CannotPause")
         /\ UNCHANGED <<now, activeDownloads, downloadIntervals, timers,
                        nextHandle, issued, cancelled>>
    ELSE /\ IF taskId \in DOMAIN downloadIntervals
            THEN /\ timers' = MapDelete(timers, downloadIntervals[taskId])
                 /\ downloadIntervals' = MapDelete(downloadIntervals, taskId)
            ELSE UNCHANGED <<timers, downloadIntervals>>
         /\ activeDownloads' =
                [activeDownloads EXCEPT ![taskId].status = "paused",
                                        ![taskId].pausedAt = Timestamp]
         /\ lastOp' = Op("pauseDownload", taskId, "ok")
         /\ UNCHANGED <<now, nextHandle, issued, cancelled>>

pauseDownload(taskId) ==
    IF taskId \notin DOMAIN activeDownloads
    THEN /\ lastOp' = Op("pauseDownload", taskId, "NotFound")
         /\ UNCHANGED <<now, activeDownloads, downloadIntervals, timers,
                        nextHandle, issued, cancelled>>
    ELSE IF activeDownloads[taskId].status # "downloading"
    THEN /\ lastOp' = Op("pauseDownload", taskId, "CannotPause")
         /\ UNCHANGED <<now, activeDownloads, downloadIntervals, timers,
                        nextHandle, issued, cancelled>>
    ELSE /\ IF taskId \in DOMAIN downloadIntervals
            THEN /\ timers' = MapDelete(timers, downloadIntervals[taskId])
                 /\ downloadIntervals' = MapDelete(downloadIntervals, taskId)
            ELSE UNCHANGED <<timers, downloadIntervals>>
         /\ activeDownloads' =
                [activeDownloads EXCEPT ![taskId].status = "paused",
                                        ![taskId].pausedAt = Timestamp,
                                        ![taskId].progress.speed = 0]
         /\ lastOp' = Op("pauseDownload", taskId, "ok")
         /\ UNCHANGED <<now, nextHandle, issued, cancelled>>

PauseDownload ==
    /\ \E taskId \in CallIds : pauseDownload(taskId)
    /\ UNCHANGED <<runnerVars, auxVars>>

\* Mutant: the status guard of resumeDownload is missing.
resumeDownload_NoStatusCheck(taskId, baseSpeed) ==
    IF taskId \notin DOMAIN activeDownloads
    THEN /\ lastOp' = Op("resumeDownload", taskId, "NotFound")
         /\ UNCHANGED <<now, activeDownloads, downloadIntervals, timers,
                        nextHandle, issued, cancelled>>
    ELSE LET registry ==
                 [activeDownloads EXCEPT ![taskId].status = "downloading",
                                         ![taskId].pausedAt = Undefined]
         IN /\ activeDownloads' = registry
            /\ simulateDownloadProgress(registry, downloadIntervals,
                                        taskId, baseSpeed)
            /\ lastOp' = Op("resumeDownload", taskId, "ok")
            /\ UNCHANGED <<now, issued, cancelled>>

\* Mutant: resumeDownload does not start the simulation again.
resumeDownload_NoTicker(taskId, baseSpeed) ==
    IF taskId \notin DOMAIN activeDownloads
    THEN /\ lastOp' = Op("resumeDownload", taskId, "NotFound")
         /\ UNCHANGED <<now, activeDownloads, downloadIntervals, timers,
                        nextHandle, issued, cancelled>>
    ELSE IF activeDownloads[taskId].status # "paused"
    THEN /\ lastOp' = Op("resumeDownload", taskId, "CannotResume")
         /\ UNCHANGED <<now, activeDownloads, downloadIntervals, timers,
                        nextHandle, issued, cancelled>>
    ELSE /\ activeDownloads' =
                 [activeDownloads EXCEPT ![taskId].status = "downloading",
                                         ![taskId].pausedAt = Undefined]
         /\ lastOp' = Op("resumeDownload", taskId, "ok")
         /\ UNCHANGED <<now, downloadIntervals, timers, nextHandle, issued,
                        cancelled>>

\* Mutant: resumeDownload leaves pausedAt as the pause set it.
resumeDownload_KeepsPausedAt(taskId, baseSpeed) ==
    IF taskId \notin DOMAIN activeDownloads
    THEN /\ lastOp' = Op("resumeDownload", taskId, "NotFound")
         /\ UNCHANGED <<now, activeDownloads, downloadIntervals, timers,
                        nextHandle, issued, cancelled>>
    ELSE IF activeDownloads[taskId].status # "paused"
    THEN /\ lastOp' = Op("resumeDownload", taskId, "CannotResume")
         /\ UNCHANGED <<now, activeDownloads, downloadIntervals, timers,
                        nextHandle, issued, cancelled>>
    ELSE LET registry ==
                 [activeDownloads EXCEPT ![taskId].status = "downloading"]
         IN /\ activeDownloads' = registry
            /\ simulateDownloadProgress(registry, downloadIntervals,
                                        taskId, baseSpeed)
            /\ lastOp' = Op("resumeDownload", taskId, "ok")
            /\ UNCHANGED <<now, issued, cancelled>>

resumeDownload(taskId, baseSpeed) ==
    IF taskId \notin DOMAIN activeDownloads
    THEN /\ lastOp' = Op("resumeDownload", taskId, "NotFound")
         /\ UNCHANGED <<now, activeDownloads, downloadIntervals, timers,
                        nextHandle, issued, cancelled>>
    ELSE IF activeDownloads[taskId].status # "paused"
    THEN /\ lastOp' = Op("resumeDownload", taskId, "CannotResume")
         /\ UNCHANGED <<now, activeDownloads, downloadIntervals, timers,
                        nextHandle, issued, cancelled>>
    ELSE LET registry ==
                 [activeDownloads EXCEPT ![taskId].status = "downloading",
                                         ![taskId].pausedAt = Undefined]
         IN /\ activeDownloads' = registry
            /\ simulateDownloadProgress(registry, downloadIntervals,
                                        taskId, baseSpeed)
            /\ lastOp' = Op("resumeDownload", taskId, "ok")
            /\ UNCHANGED <<now, issued, cancelled>>

ResumeDownload ==
    \E taskId \in CallIds, baseSpeed \in BaseSpeeds :
        /\ nextHandle < MaxTimers
        /\ resumeDownload(taskId, baseSpeed)
        /\ UNCHANGED <<runnerVars, auxVars>>

\* What the caller of a cancel sees.  A direct call sees cancelDownload's own
\* outcome; handleCancel of the progress widget is
\*   try { cancelDownload(id); onCancel() } catch { console.error(); onCancel() }
\* so its caller sees onCancel() run, after a logged error when one was thrown.
Outcome(caller, result) ==
    IF caller = "handleCancel"
    THEN (IF result = "ok" THEN "onCancel" ELSE "errorLoggedOnCancel")
    ELSE result

\* Mutant: cancelDownload removes the task but leaves its interval running.
cancelDownload_KeepsTimer(caller, taskId) ==
    IF taskId \notin DOMAIN activeDownloads
    THEN /\ lastOp' = Op(caller, taskId, Outcome(caller, "NotFound"))
         /\ UNCHANGED <<now, activeDownloads, downloadIntervals, timers,
                        nextHandle, issued, cancelled>>
    ELSE /\ activeDownloads' = MapDelete(activeDownloads, taskId)
         /\ cancelled' = cancelled \cup {taskId}
         /\ lastOp' = Op(caller, taskId, Outcome(caller, "ok"))
         /\ UNCHANGED <<now, downloadIntervals, timers, nextHandle, issued>>

\* Mutant: cancelDownload returns silently when the task is absent.
cancelDownload_SilentWhenAbsent(caller, taskId) ==
    IF taskId \notin DOMAIN activeDownloads
    THEN /\ lastOp' = Op(caller, taskId, Outcome(caller, "ok"))
         /\ UNCHANGED <<now, activeDownloads, downloadIntervals, timers,
                        nextHandle, issued, cancelled>>
    ELSE /\ IF taskId \in DOMAIN downloadIntervals
            THEN /\ timers' = MapDelete(timers, downloadIntervals[taskId])
                 /\ downloadIntervals' = MapDelete(downloadIntervals, taskId)
            ELSE UNCHANGED <<timers, downloadIntervals>>
         /\ activeDownloads' = MapDelete(activeDownloads, taskId)
         /\ cancelled' = cancelled \cup {taskId}
         /\ lastOp' = Op(caller, taskId, Outcome(caller, "ok"))
         /\ UNCHANGED <<now, nextHandle, issued>>

cancelDownload(caller, taskId) ==
    IF taskId \notin DOMAIN activeDownloads
    THEN /\ lastOp' = Op(caller, taskId, Outcome(caller, "NotFound"))
         /\ UNCHANGED <<now, activeDownloads, downloadIntervals, timers,
                        nextHandle, issued, cancelled>>
    ELSE /\ IF taskId \in DOMAIN downloadIntervals
            THEN /\ timers' = MapDelete(timers, downloadIntervals[taskId])
                 /\ downloadIntervals' = MapDelete(downloadIntervals, taskId)
            ELSE UNCHANGED <<timers, downloadIntervals>>
         /\ activeDownloads' = MapDelete(activeDownloads, taskId)
         /\ cancelled' = cancelled \cup {taskId}
         /\ lastOp' = Op(caller, taskId, Outcome(caller, "ok"))
         /\ UNCHANGED <<now, nextHandle, issued>>

CancelDownload ==
    /\ \E taskId \in CallIds : cancelDownload("cancelDownload", taskId)
    /\ UNCHANGED <<runnerVars, auxVars>>

handleCancel(taskId) == cancelDownload("handleCancel", taskId)

HandleCancel ==
    /\ \E taskId \in CallIds : handleCancel(taskId)
    /\ UNCHANGED <<runnerVars, auxVars>>

\* ------------------------------------------------------------------ queries
getProgress(taskId) ==
    /\ lastOp' = Op("getProgress", taskId,
                    IF taskId \in DOMAIN activeDownloads THEN "ok"
                    ELSE "NotFound")
    /\ UNCHANGED <<now, activeDownloads, downloadIntervals, timers,
                   nextHandle, issued, cancelled>>

GetProgress ==
    /\ \E taskId \in CallIds : getProgress(taskId)
    /\ UNCHANGED <<runnerVars, auxVars>>

getDownloadTask(taskId) ==
    /\ lastOp' = Op("getDownloadTask", taskId,
                    IF taskId \in DOMAIN activeDownloads THEN "task"
                    ELSE "undefined")
    /\ UNCHANGED <<now, activeDownloads, downloadIntervals, timers,
                   nextHandle, issued, cancelled>>

GetDownloadTask ==
    /\ \E taskId \in CallIds : getDownloadTask(taskId)
    /\ UNCHANGED <<runnerVars, auxVars>>

\* Mutant: the sweep also removes paused tasks.
clearCompletedDownloads_RemovesPaused ==
    /\ activeDownloads' =
           [id \in {t \in DOMAIN activeDownloads :
                       activeDownloads[t].status
                           \notin {"completed", "failed", "paused"}}
               |-> activeDownloads[id]]
    /\ lastOp' = Op("clearCompletedDownloads", NoId, "ok")
    /\ UNCHANGED <<now, downloadIntervals, timers, nextHandle, issued,
                   cancelled>>

clearCompletedDownloads ==
    /\ activeDownloads' =
           [id \in {t \in DOMAIN activeDownloads :
                       activeDownloads[t].status \notin {"completed", "failed"}}
               |-> activeDownloads[id]]
    /\ lastOp' = Op("clearCompletedDownloads", NoId, "ok")
    /\ UNCHANGED <<now, downloadIntervals, timers, nextHandle, issued,
                   cancelled>>

ClearCompletedDownloads ==
    /\ clearCompletedDownloads
    /\ UNCHANGED <<runnerVars, auxVars>>

getAllDownloads ==
    /\ lastOp' = Op("getAllDownloads", NoId, "ok")
    /\ UNCHANGED <<now, activeDownloads, downloadIntervals, timers,
                   nextHandle, issued, cancelled>>

\* ------------------------------------------------ a caller and what it holds
\* `return task` of startDownload (and of startMP3Download, which returns what
\* startDownload returned): the object that was put into activeDownloads.
Reference(taskId, task) ==
    [kind |-> "reference", id |-> taskId, handed |-> task, own |-> task]

\* { ...task, progress: { ...task.progress } } of getDownloadTask and
\* getAllDownloads: a new object with a new progress object.
TaskCopy(taskId, task) ==
    [kind |-> "copy", id |-> taskId, handed |-> task, own |-> task]

\* { ...task.progress } of getProgress.
ProgressCopy(taskId, task) ==
    [kind |-> "progress", id |-> taskId, handed |-> task.progress,
     own |-> task.progress]

\* What the caller reads through the value h it holds, the registry being as
\* given: a reference shows the registry's object, a copy shows itself.
View(h, registry) ==
    IF h.kind = "reference" /\ h.id \in DOMAIN registry
    THEN registry[h.id]
    ELSE h.own

\* task.status = 'paused'  /  task.progress.percentage = 0
WriteField(task, field) ==
    IF field = "status" THEN [task EXCEPT !.status = "paused"]
    ELSE [task EXCEPT !.progress.percentage = 0]

otherAuxVars == <<api, calc, selection, trip, store, link>>

\* The caller keeps what startDownload returns.
CallerStartDownload ==
    /\ held.kind = "none"
    /\ \E quality \in Qualities("mp4", {0}), suffix \in Suffixes,
          baseSpeed \in BaseSpeeds :
        /\ CanCreate
        /\ FreshSuffix(suffix)
        /\ startDownload("startDownload", quality, suffix, baseSpeed)
    /\ held' = IF lastOp'.result = "ok"
               THEN Reference(lastOp'.id, activeDownloads'[lastOp'.id])
               ELSE held
    /\ UNCHANGED <<runnerVars, otherAuxVars>>

\* The caller keeps what startMP3Download returns.
CallerStartMP3Download ==
    /\ held.kind = "none"
    /\ \E hasMp3 \in BOOLEAN, mp3Quality \in Qualities("mp3", Bitrates),
          suffix \in Suffixes, baseSpeed \in BaseSpeeds :
        /\ CanCreate
        /\ FreshSuffix(suffix)
        /\ startMP3Download(hasMp3, mp3Quality, suffix, baseSpeed)
    /\ held' = IF lastOp'.result = "ok"
               THEN Reference(lastOp'.id, activeDownloads'[lastOp'.id])
               ELSE held
    /\ UNCHANGED <<runnerVars, otherAuxVars>>

\* The caller keeps what getDownloadTask returns (nothing when undefined).
CallerGetDownloadTask ==
    /\ held.kind = "none"
    /\ \E taskId \in CallIds :
        /\ getDownloadTask(taskId)
        /\ held' = IF taskId \in DOMAIN activeDownloads
                   THEN TaskCopy(taskId, activeDownloads[taskId])
                   ELSE held
    /\ UNCHANGED <<runnerVars, otherAuxVars>>

\* The caller keeps one element of the array getAllDownloads returns.
CallerGetAllDownloads ==
    /\ held.kind = "none"
    /\ getAllDownloads
    /\ \/ /\ activeDownloads = <<>>
          /\ held' = held
       \/ \E taskId \in DOMAIN activeDownloads :
              held' = TaskCopy(taskId, activeDownloads[taskId])
    /\ UNCHANGED <<runnerVars, otherAuxVars>>

\* The caller keeps what getProgress returns (nothing when it throws).
CallerGetProgress ==
    /\ held.kind = "none"
    /\ \E taskId \in CallIds :
        /\ getProgress(taskId)
        /\ held' = IF taskId \in DOMAIN activeDownloads
                   THEN ProgressCopy(taskId, activeDownloads[taskId])
                   ELSE held
    /\ UNCHANGED <<runnerVars, otherAuxVars>>

\* The caller assigns to the status or to a progress field of the value it
\* holds.  Through a reference the assignment lands in the object the registry
\* holds; a copy takes it itself.
CallerWrite ==
    /\ held.kind # "none"
    /\ \E field \in {"status", "progress"} :
        /\ held.kind = "progress" => field = "progress"
        /\ IF held.kind = "reference"
           THEN /\ held.id \in DOMAIN activeDownloads
                /\ activeDownloads' =
                       [activeDownloads EXCEPT ![held.id] = WriteField(@, field)]
                /\ held' = held
           ELSE /\ activeDownloads' = activeDownloads
                /\ held' = [held EXCEPT !.own =
                              IF held.kind = "progress"
                              THEN [@ EXCEPT !.percentage = 0]
                              ELSE WriteField(@, field)]
        /\ lastOp' = Op("write", held.id, field)
    /\ UNCHANGED <<now, downloadIntervals, timers, nextHandle, issued,
                   cancelled, runnerVars, otherAuxVars>>

\* ------------------------------------------------------- POST /api/download
\* The options a request body can carry: the chosen quality and the mp3 entry
\* of videoInfo.qualities.
Options(format) ==
    [format : {format}, available : BOOLEAN,
     bitrate : IF format = "mp3" THEN Bitrates ELSE {0}]

\* Request bodies: without videoInfo, without quality, and complete ones whose
\* videoInfo has or has not an mp3 entry.
Bodies ==
    {NoBody, [NoBody EXCEPT !.hasVideoInfo = TRUE]}
    \cup {[hasVideoInfo |-> TRUE, hasQuality |-> TRUE, quality |-> q,
           hasMp3 |-> FALSE, mp3 |-> NoOption] :
             q \in Options("mp4") \cup Options("mp3")}
    \cup {[hasVideoInfo |-> TRUE, hasQuality |-> TRUE, quality |-> q,
           hasMp3 |-> TRUE, mp3 |-> m] :
             q \in Options("mp4") \cup Options("mp3"), m \in Options("mp3")}

\* The QualityOption of which o is the part the handlers look at.
WithSize(o, fileSize) ==
    [format |-> o.format, fileSize |-> fileSize, bitrate |-> o.bitrate,
     available |-> o.available]

\* The handler returns without calling the download manager.
Reject(body, status, code) ==
    /\ api' = [request |-> body, response |-> ApiResponse(status, code, NoId)]
    /\ UNCHANGED managerVars

\* POST: body validation, the availability check, then startMP3Download or
\* startDownload; whatever they throw goes to the catch clause.
POST(body, fileSize, suffix, baseSpeed) ==
    IF ~body.hasVideoInfo
    THEN Reject(body, 400, "MISSING_VIDEO_INFO")
    ELSE IF ~body.hasQuality
    THEN Reject(body, 400, "INVALID_REQUEST")
    ELSE IF ~body.quality.available
    THEN Reject(body, 400, "QUALITY_UNAVAILABLE")
    ELSE /\ IF body.quality.format = "mp3"
            THEN startMP3Download(body.hasMp3, WithSize(body.mp3, fileSize),
                                  suffix, baseSpeed)
            ELSE startDownload("startDownload",
                               WithSize(body.quality, fileSize),
                               suffix, baseSpeed)
         /\ api' = [request |-> body,
                    response |-> IF lastOp'.result = "ok"
                                 THEN ApiResponse(200, "", lastOp'.id)
                                 ELSE ApiResponse(500, "DOWNLOAD_FAILED", NoId)]

PostDownload ==
    \E body \in Bodies, fileSize \in Sizes, suffix \in Suffixes,
       baseSpeed \in BaseSpeeds :
        /\ CanCreate
        /\ FreshSuffix(suffix)
        /\ POST(body, fileSize, suffix, baseSpeed)
        /\ UNCHANGED <<runnerVars, held, calc, selection, trip, store,
                          link>>

\* ------------------------------------------- download endpoint (yt-dlp GET)
\* const TEMP_DIR = path.join(process.cwd(), "tmp")
TEMP_DIR == "tmp"

\* path.join(TEMP_DIR, fileId)
outputTemplate(fileId) == <<TEMP_DIR, fileId>>

\* path.basename(p): the last component of the path.
basename(p) == p[Len(p)]

\* `${fileId}.${ext}`: a file name is the sequence of its characters, with the
\* extension as one symbol.
FileName(fileId, e) == fileId \o <<".", e>>

\* String.prototype.startsWith
StartsWith(name, prefix) ==
    /\ Len(prefix) <= Len(name)
    /\ SubSeq(name, 1, Len(prefix)) = prefix

\* Mutant: the filter compares the first character only.
FilesWithPrefix_FirstCharacter(prefix) ==
    {f \in files : f[1] = basename(prefix)[1]}

\* The files of TEMP_DIR that cleanupTempFiles(prefix) would unlink.
FilesWithPrefix(prefix) == {f \in files : StartsWith(f, basename(prefix))}

\* error.message of the rejection of execAsync: child_process.exec rejects
\* with "Command failed: <cmd>" both when the tool exits non-zero and when it
\* is killed at the timeout; the handler reads nothing else of the error.
ExecErrorMessage(outcome) == "Command failed"

ErrorResponse(status, message) ==
    [status |-> status, error |-> message, body |-> <<>>]

FileResponse(fileBuffer) == [status |-> 200, error |-> "", body |-> fileBuffer]

\* randomUUID() returns a token no earlier request got.
FreshToken(fileId) == \A q \in Requests : req[q].fileId # fileId

\* GET, from its entry to `await execAsync(cmd, ...)`.
Begin(r) ==
    /\ pc[r] = "idle"
    /\ \E hasUrl \in BOOLEAN, format \in Formats, fileId \in Tokens :
         IF ~hasUrl
         THEN /\ resp' = [resp EXCEPT ![r] = ErrorResponse(400, "url required")]
              /\ pc' = [pc EXCEPT ![r] = "done"]
              /\ UNCHANGED <<files, req, tool>>
         ELSE /\ FreshToken(fileId)
              /\ req' = [req EXCEPT ![r] =
                           [NoRequest EXCEPT !.fileId = fileId,
                                             !.format = format,
                                             !.ext = IF format = "mp3"
                                                     THEN "mp3" ELSE "mp4"]]
              /\ tool' = [tool EXCEPT ![r].execs = @ + 1]
              /\ pc' = [pc EXCEPT ![r] = "exec"]
              /\ UNCHANGED <<files, resp>>
    /\ UNCHANGED <<managerVars, auxVars>>

\* The run of yt-dlp, an external process: it ends with exit code 0, with a
\* non-zero exit code, or killed by exec when the 300000 ms timeout expires,
\* and in each case leaves behind any set of files named after its output
\* template `${fileId}.%(ext)s` (finished files, other extensions, or the
\* .part file of an unfinished transfer).
ToolExit(r) ==
    /\ pc[r] = "exec"
    /\ \E outcome \in {"ok", "nonzero", "timeout"},
          written \in SUBSET {FileName(req[r].fileId, e) : e \in Exts} :
         /\ files' = files \cup written
         /\ tool' = [tool EXCEPT ![r].outcome = outcome,
                                 ![r].hasOutput = (written # {})]
    /\ pc' = [pc EXCEPT ![r] = "exited"]
    /\ UNCHANGED <<req, resp, managerVars, auxVars>>

\* Mutant: the handler runs the tool again when it failed.
AfterExec_RetriesOnFailure(r) ==
    /\ pc[r] = "exited"
    /\ IF tool[r].outcome # "ok"
       THEN /\ tool' = [tool EXCEPT ![r].execs = @ + 1]
            /\ pc' = [pc EXCEPT ![r] = "exec"]
            /\ UNCHANGED <<req, resp>>
       ELSE IF FileName(req[r].fileId, req[r].ext) \in files
       THEN /\ req' = [req EXCEPT ![r].target =
                                      FileName(req[r].fileId, req[r].ext)]
            /\ pc' = [pc EXCEPT ![r] = "readExpected"]
            /\ UNCHANGED <<resp, tool>>
       ELSE /\ pc' = [pc EXCEPT ![r] = "readdir"]
            /\ UNCHANGED <<req, resp, tool>>
    /\ UNCHANGED <<files, managerVars, auxVars>>

\* GET resumes after `await execAsync`: the rejection goes to the outer catch;
\* otherwise existsSync(outputFile) picks the branch.
AfterExec(r) ==
    /\ pc[r] = "exited"
    /\ IF tool[r].outcome # "ok"
       THEN /\ resp' = [resp EXCEPT ![r] =
                           ErrorResponse(500, ExecErrorMessage(tool[r].outcome))]
            /\ pc' = [pc EXCEPT ![r] = "done"]
            /\ UNCHANGED req
       ELSE IF FileName(req[r].fileId, req[r].ext) \in files
       THEN /\ req' = [req EXCEPT ![r].target =
                                      FileName(req[r].fileId, req[r].ext)]
            /\ pc' = [pc EXCEPT ![r] = "readExpected"]
            /\ UNCHANGED resp
       ELSE /\ pc' = [pc EXCEPT ![r] = "readdir"]
            /\ UNCHANGED <<req, resp>>
    /\ UNCHANGED <<files, tool, managerVars, auxVars>>

\* Mutant: the branch does not look for a file under the work token.
ListDir_ExactNameOnly(r) ==
    /\ pc[r] = "readdir"
    /\ resp' = [resp EXCEPT ![r] = ErrorResponse(500, "file not created")]
    /\ pc' = [pc EXCEPT ![r] = "done"]
    /\ UNCHANGED <<req, files, tool, managerVars, auxVars>>

\* `await readdir(TEMP_DIR)` and files.find(f => f.startsWith(fileId)) of the
\* expected-file-not-found branch; a failing readdir is caught by the inner
\* catch and falls through to the "file not created" response.  ioError
\* records that a filesystem call of the request has thrown.
ListDir(r) ==
    /\ pc[r] = "readdir"
    /\ \E ok \in BOOLEAN :
         LET matching == {f \in files : StartsWith(f, req[r].fileId)} IN
         IF ok /\ matching # {}
         THEN /\ \E matchingFile \in matching :
                    req' = [req EXCEPT ![r].target = matchingFile]
              /\ pc' = [pc EXCEPT ![r] = "readMatch"]
              /\ UNCHANGED resp
         ELSE /\ resp' = [resp EXCEPT ![r] =
                             ErrorResponse(500, "file not created")]
              /\ pc' = [pc EXCEPT ![r] = "done"]
              /\ req' = [req EXCEPT ![r].ioError = @ \/ ~ok]
    /\ UNCHANGED <<files, tool, managerVars, auxVars>>

\* `await readFile(...)`: of the expected file (a failure goes to the outer
\* catch) or of the prefix-matched file (a failure goes to the inner catch and
\* then to the "file not created" response).
ReadFile(r) ==
    /\ pc[r] \in {"readExpected", "readMatch"}
    /\ \E ok \in BOOLEAN :
         IF ok /\ req[r].target \in files
         THEN /\ req' = [req EXCEPT ![r].body = req[r].target]
              /\ pc' = [pc EXCEPT ![r] = "cleanup"]
              /\ UNCHANGED resp
         ELSE /\ resp' = [resp EXCEPT ![r] =
                             ErrorResponse(500,
                                 IF pc[r] = "readExpected" THEN "read error"
                                 ELSE "file not created")]
              /\ pc' = [pc EXCEPT ![r] = "done"]
              /\ req' = [req EXCEPT ![r].ioError = @ \/ ~ok]
    /\ UNCHANGED <<files, tool, managerVars, auxVars>>

\* cleanupTempFiles(outputTemplate), first half: `await readdir(TEMP_DIR)` and
\* the startsWith filter; a failing readdir is ignored.
CleanupList(r) ==
    /\ pc[r] = "cleanup"
    /\ \E ok \in BOOLEAN :
         req' = [req EXCEPT ![r].listing =
                    IF ok THEN FilesWithPrefix(outputTemplate(req[r].fileId))
                    ELSE {}]
    /\ pc' = [pc EXCEPT ![r] = "unlink"]
    /\ UNCHANGED <<files, tool, resp, managerVars, auxVars>>

\* cleanupTempFiles, one turn of the loop: `await unlink(...)` of a listed
\* file; a failing unlink is ignored.
CleanupUnlink(r) ==
    /\ pc[r] = "unlink"
    /\ \E f \in req[r].listing, ok \in BOOLEAN :
         /\ files' = IF ok THEN files \ {f} ELSE files
         /\ req' = [req EXCEPT ![r].listing = @ \ {f}]
    /\ UNCHANGED <<pc, tool, resp, managerVars, auxVars>>

\* Mutant: the body is read when the response is built, after the cleanup.
Respond_ReadsAfterCleanup(r) ==
    /\ pc[r] = "unlink"
    /\ req[r].listing = {}
    /\ resp' = [resp EXCEPT ![r] =
                   FileResponse(IF req[r].target \in files THEN req[r].target
                                ELSE <<>>)]
    /\ pc' = [pc EXCEPT ![r] = "done"]
    /\ UNCHANGED <<files, req, tool, managerVars, auxVars>>

\* The loop is over: return new NextResponse(fileBuffer, {status: 200, ...}).
Respond(r) ==
    /\ pc[r] = "unlink"
    /\ req[r].listing = {}
    /\ resp' = [resp EXCEPT ![r] = FileResponse(req[r].body)]
    /\ pc' = [pc EXCEPT ![r] = "done"]
    /\ UNCHANGED <<files, req, tool, managerVars, auxVars>>

\* --------------------------------------------------------- format selection
\* A YouTubeFormat; bitrate is the bitrate of a stream with video and the
\* audioBitrate of an audio-only stream, height the number in its label.
Stream(itag, qualityLabel, height, hasVideo, hasAudio, ext, bitrate) ==
    [itag |-> itag, qualityLabel |-> qualityLabel, height |-> height,
     hasVideo |-> hasVideo, hasAudio |-> hasAudio, ext |-> ext,
     bitrate |-> bitrate]

\* Streams a source can offer (YouTubeFormat): combined ones at 360p (mp4),
\* 480p (webm) and 720p (mp4), video-only ones at 720p, 1080p and 2160p
\* (mp4), audio-only ones in m4a and webm.  No two of them agree in label and
\* in having audio, and none in height and bitrate.
Catalogue ==
    { Stream(18, "360p", 360, TRUE, TRUE, "mp4", 500),
      Stream(44, "480p", 480, TRUE, TRUE, "webm", 1000),
      Stream(22, "720p", 720, TRUE, TRUE, "mp4", 1500),
      Stream(136, "720p", 720, TRUE, FALSE, "mp4", 2000),
      Stream(137, "1080p", 1080, TRUE, FALSE, "mp4", 4000),
      Stream(401, "2160p", 2160, TRUE, FALSE, "mp4", 12000),
      Stream(140, "none", 0, FALSE, TRUE, "m4a", 128),
      Stream(251, "none", 0, FALSE, TRUE, "webm", 160) }

\* The non-empty sets of streams a source offers.
StreamSets ==
    {S \in SUBSET Catalogue : Cardinality(S) \in 1..MaxStreams}

\* VideoQuality: the labels a request can carry.
Labels == {"360p", "480p", "720p", "1080p", "4k"}

VideoOnly(S) == {f \in S : f.hasVideo /\ ~f.hasAudio}
AudioOnly(S) == {f \in S : f.hasAudio /\ ~f.hasVideo}
Combined(S) == {f \in S : f.hasVideo /\ f.hasAudio}

\* yt-dlp's order of formats: the larger resolution, then the larger bitrate.
Better(a, b) ==
    \/ a.height > b.height
    \/ a.height = b.height /\ a.bitrate > b.bitrate

\* `best...` of a format selector over the formats S that passed its filters.
Best(S) == CHOOSE f \in S : \A g \in S \ {f} : Better(f, g)

\* qualityMap of the download endpoint: the height H of the selector
\*   bestvideo[height<=H][ext=mp4]+bestaudio[ext=m4a]
\*     /best[height<=H][ext=mp4]/best[height<=H]
qualityMap ==
    ("360p" :> 360) @@ ("480p" :> 480) @@ ("720p" :> 720) @@ ("1080p" :> 1080)

\* const formatSelector = qualityMap[quality] || qualityMap["1080p"]
formatSelector(quality) ==
    IF quality \in DOMAIN qualityMap THEN qualityMap[quality]
    ELSE qualityMap["1080p"]

\* What yt-dlp -f picks for the selector of height H: the alternatives
\* separated by "/" are tried from left to right; "a+b" needs both parts.
selectFormat(S, H) ==
    LET bestvideo == {f \in VideoOnly(S) : f.height <= H /\ f.ext = "mp4"}
        bestaudio == {f \in AudioOnly(S) : f.ext = "m4a"}
        bestMp4 == {f \in Combined(S) : f.height <= H /\ f.ext = "mp4"}
        best == {f \in Combined(S) : f.height <= H}
    IN IF bestvideo # {} /\ bestaudio # {}
       THEN [kind |-> "merged", video |-> Best(bestvideo),
             audio |-> Best(bestaudio)]
       ELSE IF bestMp4 # {}
       THEN [kind |-> "single", video |-> Best(bestMp4),
             audio |-> Best(bestMp4)]
       ELSE IF best # {}
       THEN [kind |-> "single", video |-> Best(best), audio |-> Best(best)]
       ELSE NoFormat

\* qualityMap of getBestFormat: the qualityLabels tried for a preference.
targetQualities(preferredQuality) ==
    CASE preferredQuality = "360p" -> <<"360p", "360p60">>
      [] preferredQuality = "480p" -> <<"480p", "480p60">>
      [] preferredQuality = "720p" -> <<"720p", "720p60">>
      [] preferredQuality = "1080p" -> <<"1080p", "1080p60">>
      [] preferredQuality = "4k" -> <<"2160p", "2160p60", "4k">>
      [] OTHER -> <<preferredQuality>>

\* for (const quality of labels) { formats.find(f => f.qualityLabel ===
\* quality && f.hasVideo [&& f.hasAudio]) }: the first label that has a match.
RECURSIVE FindByLabel(_, _, _)
FindByLabel(formats, labels, withAudio) ==
    IF labels = <<>> THEN NoStream
    ELSE LET found == {f \in formats :
                          /\ f.qualityLabel = Head(labels)
                          /\ f.hasVideo
                          /\ withAudio => f.hasAudio}
         IN IF found # {} THEN CHOOSE f \in found : TRUE
            ELSE FindByLabel(formats, Tail(labels), withAudio)

\* sort((a, b) => b.bitrate - a.bitrate)[0] || null
HighestBitrate(S) ==
    IF S = {} THEN NoStream
    ELSE CHOOSE f \in S : \A g \in S : f.bitrate >= g.bitrate

getBestFormat(formats, preferredQuality, audioOnly) ==
    IF audioOnly THEN HighestBitrate(AudioOnly(formats))
    ELSE IF FindByLabel(formats, targetQualities(preferredQuality), TRUE)
               # NoStream
    THEN FindByLabel(formats, targetQualities(preferredQuality), TRUE)
    ELSE IF FindByLabel(formats, targetQualities(preferredQuality), FALSE)
               # NoStream
    THEN FindByLabel(formats, targetQualities(preferredQuality), FALSE)
    ELSE HighestBitrate(Combined(formats))

\* The format selectors on a source and a preference drawn from the inputs.
InitSelector ==
    /\ InitProgram
    /\ calc = NoCalc
    /\ selection \in [streams : StreamSets, quality : Labels,
                      audioOnly : BOOLEAN, directiveDone : {FALSE},
                      directive : {NoFormat}, bestDone : {FALSE},
                      best : {NoStream}]
    /\ InitLib

\* The download endpoint runs yt-dlp with the selector of the quality.
SelectFormat ==
    /\ ~selection.directiveDone
    /\ selection' = [selection EXCEPT
                       !.directiveDone = TRUE,
                       !.directive = selectFormat(selection.streams,
                                         formatSelector(selection.quality))]
    /\ UNCHANGED <<managerVars, runnerVars, held, api, calc, trip, store,
                   link>>

GetBestFormat ==
    /\ ~selection.bestDone
    /\ selection' = [selection EXCEPT
                       !.bestDone = TRUE,
                       !.best = getBestFormat(selection.streams,
                                              selection.quality,
                                              selection.audioOnly)]
    /\ UNCHANGED <<managerVars, runnerVars, held, api, calc, trip, store,
                   link>>

\* ---------------------------------------------------------- history manager
\* A string is the sequence of its characters; Chars holds a plain character
\* and the two characters JSON.stringify escapes.  An enumerated word (a
\* platform, a format, a date) is one symbol.
Chars == {"a", "\"", "\\"}
DigitChar == <<"0", "1", "2", "3", "4", "5", "6", "7", "8", "9">>

\* new Date().toISOString(), and two other date strings: one Date parses but
\* toISOString prints differently, and one Date cannot parse.
IsoNow == "2024-05-01T10:00:00.000Z"
DateStrings == {IsoNow, "2024-05-01", "yesterday"}

\* new Date(dateString).getTime(); 0 stands for NaN.
getTime(dateString) ==
    IF dateString = IsoNow THEN 2
    ELSE IF dateString = "2024-05-01" THEN 1
    ELSE 0

\* Date.prototype.toISOString of a valid instant.
toISOString(time) ==
    IF time = 2 THEN IsoNow ELSE "2024-05-01T00:00:00.000Z"

isValidISODate(dateString) ==
    /\ Len(dateString) = 1
    /\ getTime(dateString[1]) # 0
    /\ dateString[1] = toISOString(getTime(dateString[1]))

isValidPlatform(value) == value = <<"youtube">> \/ value = <<"tiktok">>

isValidFormat(value) == value = <<"mp4">> \/ value = <<"mp3">>

RecordKeys == {"id", "title", "url", "platform", "format", "quality",
               "downloadedAt", "fileSize"}

\* validateDownloadRecord; the typeof tests hold for every value the model
\* builds, a missing property fails them.
validateDownloadRecord(r) ==
    /\ RecordKeys \subseteq DOMAIN r
    /\ Len(r.id) # 0
    /\ Len(r.title) # 0
    /\ Len(r.url) # 0
    /\ Len(r.quality) # 0
    /\ isValidISODate(r.downloadedAt)
    /\ isValidPlatform(r.platform)
    /\ isValidFormat(r.format)
    /\ r.fileSize >= 0

\* ---- JSON text: a sequence of tokens; a string token holds the characters
\* between its quotes, a number token its sign and digits.
Token(t, v) == [t |-> t, v |-> v]
Punct(c) == Token("punct", <<c>>)

\* Mutant: quotes are escaped, backslashes are not.
RECURSIVE Escape_QuotesOnly(_)
Escape_QuotesOnly(chars) ==
    IF chars = <<>> THEN <<>>
    ELSE (IF Head(chars) = "\"" THEN <<"\\", Head(chars)>>
          ELSE <<Head(chars)>>)
         \o Escape_QuotesOnly(Tail(chars))

\* JSON.stringify of a string: a quote and a backslash get a backslash in
\* front.
RECURSIVE Escape(_)
Escape(chars) ==
    IF chars = <<>> THEN <<>>
    ELSE (IF Head(chars) \in {"\"", "\\"} THEN <<"\\", Head(chars)>>
          ELSE <<Head(chars)>>)
         \o Escape(Tail(chars))

\* JSON.parse of the inside of a string literal: a backslash stands for the
\* character after it.
RECURSIVE Unescape(_)
Unescape(chars) ==
    IF chars = <<>> THEN <<>>
    ELSE IF Head(chars) = "\\" /\ Len(chars) >= 2
    THEN <<chars[2]>> \o Unescape(Tail(Tail(chars)))
    ELSE <<Head(chars)>> \o Unescape(Tail(chars))

\* Number.prototype.toString of an integer.
RECURSIVE Digits(_)
Digits(n) ==
    IF n < 0 THEN <<"-">> \o Digits(-n)
    ELSE IF n < 10 THEN <<DigitChar[n + 1]>>
    ELSE Digits(n \div 10) \o <<DigitChar[(n % 10) + 1]>>

DigitValue(c) == CHOOSE d \in 0..9 : DigitChar[d + 1] = c

\* The number a sequence of digits denotes.
RECURSIVE FromDigits(_)
FromDigits(chars) ==
    IF Head(chars) = "-" THEN -FromDigits(Tail(chars))
    ELSE IF Len(chars) = 1 THEN DigitValue(chars[1])
    ELSE 10 * FromDigits(SubSeq(chars, 1, Len(chars) - 1))
         + DigitValue(chars[Len(chars)])

\* "key":value
Member(key, value) == <<Token("string", <<key>>), Punct(":"), value>>

StringToken(chars) == Token("string", Escape(chars))
NumberToken(n) == Token("number", Digits(n))

\* JSON.stringify of one record.
stringifyRecord(r) ==
    <<Punct("{")>>
    \o Member("id", StringToken(r.id)) \o <<Punct(",")>>
    \o Member("title", StringToken(r.title)) \o <<Punct(",")>>
    \o Member("url", StringToken(r.url)) \o <<Punct(",")>>
    \o Member("platform", StringToken(r.platform)) \o <<Punct(",")>>
    \o Member("format", StringToken(r.format)) \o <<Punct(",")>>
    \o Member("quality", StringToken(r.quality)) \o <<Punct(",")>>
    \o Member("downloadedAt", StringToken(r.downloadedAt)) \o <<Punct(",")>>
    \o Member("fileSize", NumberToken(r.fileSize))
    \o <<Punct("}")>>

RECURSIVE stringifyElements(_)
stringifyElements(records) ==
    IF records = <<>> THEN <<>>
    ELSE IF Len(records) = 1 THEN stringifyRecord(records[1])
    ELSE stringifyRecord(records[1]) \o <<Punct(",")>>
         \o stringifyElements(Tail(records))

\* JSON.stringify of an array of records.
JSONstringify(records) ==
    <<Punct("[")>> \o stringifyElements(records) \o <<Punct("]")>>

\* JSON.parse has thrown a SyntaxError.
SyntaxError == [ok |-> FALSE, next |-> 0, value |-> <<>>]

\* The value of a string or number token.
TokenValue(token) ==
    IF token.t = "string" THEN Unescape(token.v) ELSE FromDigits(token.v)

\* The members of an object from token i on, added to object o.
RECURSIVE ParseMembers(_, _, _)
ParseMembers(text, i, o) ==
    IF i + 3 > Len(text) THEN SyntaxError
    ELSE IF \/ text[i].t # "string"
            \/ text[i + 1] # Punct(":")
            \/ text[i + 2].t \notin {"string", "number"}
    THEN SyntaxError
    ELSE LET key == Unescape(text[i].v)[1]
             object == MapSet(o, key, TokenValue(text[i + 2]))
         IN IF text[i + 3] = Punct(",")
            THEN ParseMembers(text, i + 4, object)
            ELSE IF text[i + 3] = Punct("}")
            THEN [ok |-> TRUE, next |-> i + 4, value |-> object]
            ELSE SyntaxError

\* The elements of an array from token i on, appended to elements.
RECURSIVE ParseElements(_, _, _)
ParseElements(text, i, elements) ==
    IF i > Len(text) \/ text[i] # Punct("{") THEN SyntaxError
    ELSE LET object == ParseMembers(text, i + 1, <<>>) IN
         IF ~object.ok \/ object.next > Len(text) THEN SyntaxError
         ELSE IF text[object.next] = Punct(",")
         THEN ParseElements(text, object.next + 1,
                            Append(elements, object.value))
         ELSE IF text[object.next] = Punct("]") /\ object.next = Len(text)
         THEN [ok |-> TRUE, next |-> object.next,
               value |-> Append(elements, object.value)]
         ELSE SyntaxError

\* JSON.parse of an array of flat objects.
JSONparse(text) ==
    IF Len(text) < 2 \/ text[1] # Punct("[") THEN SyntaxError
    ELSE IF text = <<Punct("["), Punct("]")>>
    THEN [ok |-> TRUE, next |-> 2, value |-> <<>>]
    ELSE ParseElements(text, 2, <<>>)

serializeHistory(records) == JSONstringify(records)

parseHistory(jsonString) ==
    LET parsed == JSONparse(jsonString) IN
    IF ~parsed.ok THEN <<>>
    ELSE SelectSeq(parsed.value, validateDownloadRecord)

\* ---- the round trip on lists drawn from the inputs
DownloadRecord(id, title, platform, downloadedAt, fileSize) ==
    [id |-> id, title |-> title, url |-> <<"a">>, platform |-> platform,
     format |-> <<"mp4">>, quality |-> <<"a">>,
     downloadedAt |-> downloadedAt, fileSize |-> fileSize]

\* Titles: empty, plain, and with the characters that need escaping.
Titles == {<<>>, <<"a">>, <<"\"">>, <<"\\", "a">>, <<"\\", "\"">>}
FileSizes == {-1, 0, 120}

\* Records a caller can hand to serializeHistory: valid ones and ones that
\* validateDownloadRecord rejects for one of its reasons.
RecordInputs ==
    {DownloadRecord(<<"a">>, title, <<"youtube">>, <<IsoNow>>, fileSize) :
         title \in Titles, fileSize \in FileSizes}
    \cup {DownloadRecord(<<"a">>, <<"a">>, <<"vimeo">>, <<IsoNow>>, 0)}
    \cup {DownloadRecord(<<"a">>, <<"a">>, <<"tiktok">>, <<d>>, 0) :
              d \in DateStrings}

RecordLists == UNION {[1..n -> RecordInputs] : n \in 0..MaxRecords}

InitRoundTrip ==
    /\ InitProgram
    /\ calc = NoCalc
    /\ selection = NoSelection
    /\ trip \in [records : RecordLists, op : {"none"}, text : {<<>>},
                 output : {<<>>}]
    /\ store = NoStore
    /\ link = NoLink

SerializeHistory ==
    /\ trip.op = "none"
    /\ trip' = [trip EXCEPT !.op = "serialized",
                            !.text = serializeHistory(trip.records)]
    /\ UNCHANGED <<managerVars, runnerVars, held, api, calc, selection,
                   store, link>>

ParseHistory ==
    /\ trip.op = "serialized"
    /\ trip' = [trip EXCEPT !.op = "parsed",
                            !.output = parseHistory(trip.text)]
    /\ UNCHANGED <<managerVars, runnerVars, held, api, calc, selection,
                   store, link>>

\* ---- the history in localStorage
\* localStorage.getItem(HISTORY_STORAGE_KEY); window.localStorage is
\* available throughout.
getItem == store.item

\* getHistory()
getHistory ==
    IF ~getItem.present THEN <<>> ELSE parseHistory(getItem.text)

\* generateRecordId(): the ids of successive calls differ.
generateRecordId(n) == <<"rec", DigitChar[n + 1]>>

\* What a caller passes to saveDownload: title and fileSize as the video
\* source reported them.
SaveInputs ==
    [title : {<<>>, <<"a">>}, url : {<<"a">>}, platform : {<<"youtube">>},
     format : {<<"mp4">>}, quality : {<<"a">>}, fileSize : {-1, 12}]

Item(text) == [present |-> TRUE, text |-> text]

\* saveDownload(record)
SaveDownload ==
    /\ store.calls < MaxSaves
    /\ \E record \in SaveInputs :
         LET newRecord ==
                 [id |-> generateRecordId(store.calls + 1),
                  title |-> record.title, url |-> record.url,
                  platform |-> record.platform, format |-> record.format,
                  quality |-> record.quality,
                  downloadedAt |-> <<IsoNow>>,
                  fileSize |-> record.fileSize]
             history == <<newRecord>> \o getHistory
         IN store' = [store EXCEPT
                        !.item = Item(serializeHistory(history)),
                        !.calls = @ + 1,
                        !.saved = <<newRecord>> \o @,
                        !.op = "saveDownload",
                        !.returned = newRecord]
    /\ UNCHANGED <<managerVars, runnerVars, held, api, calc, selection,
                   trip, link>>

\* getHistory() called by the page.
GetHistory ==
    /\ store' = [store EXCEPT !.op = "getHistory", !.listed = getHistory]
    /\ UNCHANGED <<managerVars, runnerVars, held, api, calc, selection,
                   trip, link>>

\* clearHistory()
ClearHistory ==
    /\ store' = [store EXCEPT !.item = NoItem, !.saved = <<>>,
                              !.op = "clearHistory"]
    /\ UNCHANGED <<managerVars, runnerVars, held, api, calc, selection,
                   trip, link>>

\* deleteRecord(id)
DeleteRecord ==
    /\ \E n \in 1..MaxSaves :
         LET id == generateRecordId(n)
             history == getHistory
             filteredHistory == SelectSeq(history, LAMBDA r : r.id # id)
             kept == SelectSeq(store.saved, LAMBDA r : r.id # id)
         IN IF Len(filteredHistory) = Len(history)
            THEN store' = [store EXCEPT !.op = "deleteRecord",
                                        !.saved = kept]
            ELSE store' = [store EXCEPT
                             !.item = Item(serializeHistory(filteredHistory)),
                             !.op = "deleteRecord",
                             !.saved = kept]
    /\ UNCHANGED <<managerVars, runnerVars, held, api, calc, selection,
                   trip, link>>

\* ---------------------------------------------------------------- URL parser
\* A URL is the sequence of its parts; a part (scheme, host, path segment,
\* video id, white space) is one symbol.
Whitespace == {" "}
UrlSchemes == {"http://", "https://"}
\* [a-zA-Z0-9_-]{11}
Id11 == {"dQw4w9WgXcQ", "a-b_c123456", "12345678901"}
\* \d+
IdDigits == {"12345678901", "7123"}
\* [a-zA-Z0-9]+
IdAlnum == {"dQw4w9WgXcQ", "12345678901", "7123"}
\* [\w.-]+
Usernames == {"user"}
\* No value (null).
NullId == "null"

\* ---- regular expressions over parts: a literal part out of a set, the
\* capture group, an optional group, and `.*`.
Lit(set) == [k |-> "lit", set |-> set, sub |-> <<>>]
Group(set) == [k |-> "group", set |-> set, sub |-> <<>>]
Opt(sub) == [k |-> "opt", set |-> {}, sub |-> sub]
AnyString == [k |-> "any", set |-> {}, sub |-> <<>>]

Prefix == <<Opt(<<Lit(UrlSchemes)>>), Opt(<<Lit({"www."})>>)>>
Query == Opt(<<Lit({"?"}), AnyString>>)

YOUTUBE_PATTERNS ==
    << Prefix \o <<Lit({"youtube.com"}), Lit({"/watch"}), Lit({"?"}),
                   Opt(<<AnyString, Lit({"&"})>>), Lit({"v="}), Group(Id11),
                   Opt(<<Lit({"&"}), AnyString>>)>>,
       Prefix \o <<Lit({"youtu.be"}), Lit({"/"}), Group(Id11), Query>>,
       Prefix \o <<Lit({"youtube.com"}), Lit({"/embed/"}), Group(Id11),
                   Query>>,
       Prefix \o <<Lit({"youtube.com"}), Lit({"/shorts/"}), Group(Id11),
                   Query>> >>

TIKTOK_PATTERNS ==
    << Prefix \o <<Lit({"tiktok.com"}), Lit({"/@"}), Lit(Usernames),
                   Lit({"/video/"}), Group(IdDigits), Query>>,
       <<Opt(<<Lit(UrlSchemes)>>), Opt(<<Lit({"vm."})>>), Lit({"tiktok.com"}),
         Lit({"/"}), Group(IdAlnum), Opt(<<Lit({"/"})>>), Query>>,
       <<Opt(<<Lit(UrlSchemes)>>), Lit({"m."}), Lit({"tiktok.com"}),
         Lit({"/v/"}), Group(IdDigits), Query>> >>

\* The ways pattern matches the whole of s, in the order a backtracking
\* matcher tries them (optional groups and `.*` are greedy); each is given by
\* what the capture group holds.
RECURSIVE Exec(_, _)
RECURSIVE ExecAny(_, _, _)
Exec(pattern, s) ==
    IF Len(pattern) = 0 THEN (IF Len(s) = 0 THEN <<NullId>> ELSE <<>>)
    ELSE LET e == Head(pattern)
             rest == Tail(pattern)
         IN CASE e.k = "lit" ->
                   IF Len(s) > 0 /\ s[1] \in e.set
                   THEN Exec(rest, Tail(s)) ELSE <<>>
              [] e.k = "group" ->
                   IF Len(s) > 0 /\ s[1] \in e.set
                   THEN [i \in 1..Len(Exec(rest, Tail(s))) |-> s[1]]
                   ELSE <<>>
              [] e.k = "opt" -> Exec(e.sub \o rest, s) \o Exec(rest, s)
              [] e.k = "any" -> ExecAny(rest, s, Len(s))

\* `.*` taking the first n parts of s, then fewer.
ExecAny(rest, s, n) ==
    Exec(rest, SubSeq(s, n + 1, Len(s)))
    \o (IF n = 0 THEN <<>> ELSE ExecAny(rest, s, n - 1))

\* RegExp.prototype.test
test(pattern, s) == Len(Exec(pattern, s)) > 0

RECURSIVE trim(_)
\* String.prototype.trim
trim(s) ==
    IF Len(s) > 0 /\ Head(s) \in Whitespace THEN trim(Tail(s))
    ELSE IF Len(s) > 0 /\ s[Len(s)] \in Whitespace
    THEN trim(SubSeq(s, 1, Len(s) - 1))
    ELSE s

validateYouTubeURL(url) ==
    /\ Len(url) > 0
    /\ \E i \in 1..Len(YOUTUBE_PATTERNS) : test(YOUTUBE_PATTERNS[i], trim(url))

validateTikTokURL(url) ==
    /\ Len(url) > 0
    /\ \E i \in 1..Len(TIKTOK_PATTERNS) : test(TIKTOK_PATTERNS[i], trim(url))

\* match[1] of the first pattern that matches, NullId if none does.
RECURSIVE FirstMatch(_, _)
FirstMatch(patterns, s) ==
    IF Len(patterns) = 0 THEN NullId
    ELSE IF test(Head(patterns), s) THEN Exec(Head(patterns), s)[1]
    ELSE FirstMatch(Tail(patterns), s)

\* Mutant: only the YouTube patterns are tried.
extractVideoId_YouTubeOnly(url) ==
    IF Len(url) = 0 THEN NullId
    ELSE FirstMatch(YOUTUBE_PATTERNS, trim(url))

extractVideoId(url) ==
    IF Len(url) = 0 THEN NullId
    ELSE LET trimmedUrl == trim(url)
             youtube == FirstMatch(YOUTUBE_PATTERNS, trimmedUrl)
         IN IF youtube # NullId THEN youtube
            ELSE FirstMatch(TIKTOK_PATTERNS, trimmedUrl)

ParsedURL(platform, videoId, originalUrl) ==
    [platform |-> platform, videoId |-> videoId, originalUrl |-> originalUrl]

\* parseURL returned null.
NullURL == ParsedURL("null", NullId, <<>>)

parseURL(url) ==
    IF Len(url) = 0 THEN NullURL
    ELSE LET trimmedUrl == trim(url) IN
         IF validateYouTubeURL(trimmedUrl)
              /\ extractVideoId(trimmedUrl) # NullId
         THEN ParsedURL("youtube", extractVideoId(trimmedUrl), trimmedUrl)
         ELSE IF validateTikTokURL(trimmedUrl)
                   /\ extractVideoId(trimmedUrl) # NullId
         THEN ParsedURL("tiktok", extractVideoId(trimmedUrl), trimmedUrl)
         ELSE NullURL

\* ---- the strings a user can paste
\* Drops the parts that are absent ("").
Compact(parts) == SelectSeq(parts, LAMBDA p : p # "")

UrlPaths ==
    {<<"/watch", "?", "v=">>, <<"/watch", "?", "t=1", "&", "v=">>, <<"/">>,
     <<"/embed/">>, <<"/shorts/">>, <<"/@", "user", "/video/">>, <<"/v/">>}
UrlIds == {"dQw4w9WgXcQ", "a-b_c123456", "12345678901", "7123", ""}
UrlTails == {<<>>, <<"?", "t=1">>, <<"&", "t=1">>, <<"/">>}
UrlSpaces == {<<"", "">>, <<" ", " ">>, <<"", " ">>}

Urls ==
    {Compact(<<sp[1], scheme, sub, host>> \o path \o <<id>> \o tail
             \o <<sp[2]>>) :
        sp \in UrlSpaces, scheme \in {"", "https://"},
        sub \in {"", "www.", "vm.", "m."},
        host \in {"youtube.com", "youtu.be", "tiktok.com"},
        path \in UrlPaths, id \in UrlIds, tail \in UrlTails}
    \cup {<<>>, <<" ">>, <<"ftp://", "youtu.be", "/", "dQw4w9WgXcQ">>,
          <<"example.com", "/", "7123">>}

InitUrl ==
    /\ InitProgram
    /\ calc = NoCalc
    /\ selection = NoSelection
    /\ trip = NoTrip
    /\ store = NoStore
    /\ link \in [url : Urls, op : {"none"}, valid : {FALSE},
                   videoId : {NullId}, result : {NullURL}]

ValidateYouTubeURL ==
    /\ link.op = "none"
    /\ link' = [link EXCEPT !.op = "validateYouTubeURL",
                            !.valid = validateYouTubeURL(link.url)]
    /\ UNCHANGED <<managerVars, runnerVars, held, api, calc, selection,
                   trip, store>>

ValidateTikTokURL ==
    /\ link.op = "none"
    /\ link' = [link EXCEPT !.op = "validateTikTokURL",
                            !.valid = validateTikTokURL(link.url)]
    /\ UNCHANGED <<managerVars, runnerVars, held, api, calc, selection,
                   trip, store>>

ExtractVideoId ==
    /\ link.op = "none"
    /\ link' = [link EXCEPT !.op = "extractVideoId",
                            !.videoId = extractVideoId(link.url)]
    /\ UNCHANGED <<managerVars, runnerVars, held, api, calc, selection,
                   trip, store>>

ParseURL ==
    /\ link.op = "none"
    /\ link' = [link EXCEPT !.op = "parseURL",
                            !.result = parseURL(link.url)]
    /\ UNCHANGED <<managerVars, runnerVars, held, api, calc, selection,
                   trip, store>>

\* ------------------------------------------------------------ specification
Next ==
    \/ StartDownload
    \/ StartMP3Download
    \/ Tick
    \/ PauseDownload
    \/ ResumeDownload
    \/ CancelDownload
    \/ HandleCancel
    \/ GetProgress
    \/ GetDownloadTask
    \/ ClearCompletedDownloads

Spec == Init /\ [][Next]_vars

\* The download endpoint serving its requests.
NextRunner ==
    \E r \in Requests :
        \/ Begin(r)
        \/ ToolExit(r)
        \/ AfterExec(r)
        \/ ListDir(r)
        \/ ReadFile(r)
        \/ CleanupList(r)
        \/ CleanupUnlink(r)
        \/ Respond(r)

SpecRunner == Init /\ [][NextRunner]_vars

\* A caller that keeps one value the manager returned to it, while tasks are
\* started, tick and are paused.
NextCaller ==
    \/ StartDownload
    \/ Tick
    \/ PauseDownload
    \/ CallerStartDownload
    \/ CallerStartMP3Download
    \/ CallerGetDownloadTask
    \/ CallerGetAllDownloads
    \/ CallerGetProgress
    \/ CallerWrite

SpecCaller == Init /\ [][NextCaller]_vars

\* The POST route creating tasks that tick.
NextApi ==
    \/ PostDownload
    \/ Tick

SpecApi == Init /\ [][NextApi]_vars

\* Creation and removal: tasks of the manager, work tokens of the endpoint.
NextCreate ==
    \/ StartDownload
    \/ StartMP3Download
    \/ Tick
    \/ CancelDownload
    \/ \E r \in Requests : Begin(r)

SpecCreate == Init /\ [][NextCreate]_vars

\* The progress calculations as pure functions.
NextCalc ==
    \/ CalculatePercentage
    \/ CalculateETA

SpecCalc == InitCalc /\ [][NextCalc]_vars

\* The format selectors as pure functions.
NextSelector ==
    \/ SelectFormat
    \/ GetBestFormat

SpecSelector == InitSelector /\ [][NextSelector]_vars

NextRoundTrip ==
    \/ SerializeHistory
    \/ ParseHistory

SpecRoundTrip == InitRoundTrip /\ [][NextRoundTrip]_vars

NextHistory ==
    \/ SaveDownload
    \/ GetHistory
    \/ DeleteRecord
    \/ ClearHistory

SpecHistory == Init /\ [][NextHistory]_vars

NextUrl ==
    \/ ValidateYouTubeURL
    \/ ValidateTikTokURL
    \/ ExtractVideoId
    \/ ParseURL

SpecUrl == InitUrl /\ [][NextUrl]_vars

TypeOK ==
    /\ now \in Clock
    /\ DOMAIN activeDownloads \subseteq TaskIds
    /\ DOMAIN downloadIntervals \subseteq TaskIds
    /\ nextHandle \in 0..MaxTimers


\* ----------------------------------------------------- claims: task lifecycle
\* The parts of the manager's state a call can change.
managerState == <<activeDownloads, downloadIntervals, timers>>

\* Status of task id, "absent" when the registry does not hold it.
StatusOf(id) ==
    IF id \in DOMAIN activeDownloads THEN activeDownloads[id].status
    ELSE "absent"

\* C3: pauseDownload succeeds only from downloading and resumeDownload only
\* from paused; any other request on a known task fails and leaves the task,
\* its progress and its ticker unchanged; pause, resume and getProgress on an
\* unknown id fail with the not-found error.
C3_OnlyTableTransitionsSucceed ==
    [][ LET o == lastOp' IN
        /\ o.op = "pauseDownload" =>
             /\ (o.result = "ok") <=> (StatusOf(o.id) = "downloading")
             /\ (o.result = "NotFound") <=> (StatusOf(o.id) = "absent")
             /\ o.result = "ok" => activeDownloads'[o.id].status = "paused"
             /\ o.result # "ok" => UNCHANGED managerState
        /\ o.op = "resumeDownload" =>
             /\ (o.result = "ok") <=> (StatusOf(o.id) = "paused")
             /\ (o.result = "NotFound") <=> (StatusOf(o.id) = "absent")
             /\ o.result = "ok" => activeDownloads'[o.id].status = "downloading"
             /\ o.result # "ok" => UNCHANGED managerState
        /\ o.op = "getProgress" =>
             /\ (o.result = "NotFound") <=> (StatusOf(o.id) = "absent")
             /\ UNCHANGED managerState
      ]_vars

\* A pause was refused on a completed task.
C3_Witness ==
    /\ lastOp.op = "pauseDownload"
    /\ lastOp.result = "CannotPause"
    /\ StatusOf(lastOp.id) = "completed"

\* C4: once a task is completed (or failed), no tick, pauseDownload or
\* resumeDownload changes its status or its progress; in any step the task
\* either stays exactly as it is or is removed by a cancel or a sweep.
C4_TerminalIsFinal ==
    [][ \A id \in DOMAIN activeDownloads :
          activeDownloads[id].status \in {"completed", "failed"} =>
            \/ /\ id \in DOMAIN activeDownloads'
               /\ activeDownloads'[id] = activeDownloads[id]
            \/ /\ id \notin DOMAIN activeDownloads'
               /\ lastOp'.op \in {"cancelDownload", "handleCancel",
                                  "clearCompletedDownloads"}
      ]_vars

\* A resume was refused on a completed task.
C4_Witness ==
    /\ lastOp.op = "resumeDownload"
    /\ lastOp.result = "CannotResume"
    /\ StatusOf(lastOp.id) = "completed"

\* C5: after cancelDownload(id) has returned, the task is absent from the
\* registry, no interval bound to it is live or registered, and
\* getDownloadTask(id) returns undefined.
C5_CancelledStaysGone ==
    \A id \in cancelled :
        /\ id \notin DOMAIN activeDownloads
        /\ id \notin DOMAIN downloadIntervals
        /\ TimersOf(id) = {}
        /\ (lastOp.op = "getDownloadTask" /\ lastOp.id = id)
              => lastOp.result = "undefined"

\* A cancelled id is looked up while another task is still ticking.
C5_Witness ==
    /\ lastOp.op = "getDownloadTask"
    /\ lastOp.id \in cancelled
    /\ timers # <<>>

\* C6: each task id has at most one live interval timer.
C6_AtMostOneTicker ==
    \A id \in TaskIds : Cardinality(TimersOf(id)) <= 1

\* A paused task has been resumed and is driven by exactly one timer.
C6_Witness ==
    /\ lastOp.op = "resumeDownload"
    /\ lastOp.result = "ok"
    /\ Cardinality(TimersOf(lastOp.id)) = 1

\* A tick of the step advanced task id (it did not find the task gone or not
\* downloading).
TickAdvanced(id) ==
    /\ lastOp'.op = "tick"
    /\ lastOp'.id = id
    /\ lastOp'.result \in {"advanced", "completed"}

\* C7 as stated: every tick that fires while the task is downloading leaves
\* downloadedBytes strictly greater, and downloadedBytes does not change from
\* a successful pause until the next successful resume.
C7_Original ==
    [][ \A id \in DOMAIN activeDownloads :
          /\ TickAdvanced(id) =>
                activeDownloads'[id].progress.downloadedBytes
                    > activeDownloads[id].progress.downloadedBytes
          /\ (id \in DOMAIN activeDownloads'
                /\ activeDownloads'[id].status = "paused") =>
                activeDownloads'[id].progress.downloadedBytes
                    = activeDownloads[id].progress.downloadedBytes
      ]_vars

\* C7 (amended): for a task whose totalBytes is positive, every tick that
\* fires while it is downloading leaves downloadedBytes strictly greater; for
\* every task, downloadedBytes does not change from a successful pause until
\* the next successful resume.
C7_Amended ==
    [][ \A id \in DOMAIN activeDownloads :
          /\ (TickAdvanced(id) /\ activeDownloads[id].progress.totalBytes > 0) =>
                activeDownloads'[id].progress.downloadedBytes
                    > activeDownloads[id].progress.downloadedBytes
          /\ (id \in DOMAIN activeDownloads'
                /\ activeDownloads'[id].status = "paused") =>
                activeDownloads'[id].progress.downloadedBytes
                    = activeDownloads[id].progress.downloadedBytes
      ]_vars

\* A tick has advanced a task of positive size that was resumed part-way.
C7_Witness ==
    /\ lastOp.op = "tick"
    /\ lastOp.result = "advanced"
    /\ lastOp.id \in DOMAIN activeDownloads
    /\ activeDownloads[lastOp.id].progress.totalBytes > 0
    /\ activeDownloads[lastOp.id].progress.downloadedBytes > 0

\* C8: a task whose downloadedBytes has reached totalBytes is moved to
\* completed by the tick, for every size estimate including 0.
C8_CompletedOnceBytesReachTotal ==
    (/\ lastOp.op = "tick"
     /\ lastOp.result \in {"advanced", "completed"}
     /\ lastOp.id \in DOMAIN activeDownloads
     /\ activeDownloads[lastOp.id].progress.downloadedBytes
            >= activeDownloads[lastOp.id].progress.totalBytes)
      => activeDownloads[lastOp.id].status = "completed"

\* C9: a successful pause stops the ticker, zeroes the speed and keeps
\* downloadedBytes, totalBytes and percentage; a successful resume changes no
\* byte counter and starts one ticker, registered for the task.
C9_PauseResumeFrame ==
    [][ LET o == lastOp'
            id == lastOp'.id
        IN
        /\ (o.op = "pauseDownload" /\ o.result = "ok") =>
             /\ activeDownloads'[id].progress
                    = [activeDownloads[id].progress EXCEPT !.speed = 0]
             /\ {h \in DOMAIN timers' : timers'[h].taskId = id} = {}
             /\ id \notin DOMAIN downloadIntervals'
        /\ (o.op = "resumeDownload" /\ o.result = "ok") =>
             /\ activeDownloads'[id].progress = activeDownloads[id].progress
             /\ id \in DOMAIN downloadIntervals'
             /\ {h \in DOMAIN timers' : timers'[h].taskId = id}
                    = {downloadIntervals'[id]}
             /\ downloadIntervals'[id] \notin DOMAIN timers
      ]_vars

\* A task was paused with bytes accumulated and a non-zero speed on record.
C9_Witness ==
    /\ lastOp.op = "pauseDownload"
    /\ lastOp.result = "ok"
    /\ activeDownloads[lastOp.id].progress.downloadedBytes > 0
    /\ activeDownloads[lastOp.id].progress.speed = 0

\* C10 as stated: cancelling an id that is absent from the registry raises no
\* error and changes no state.
C10_Original ==
    [][ (lastOp'.op = "cancelDownload" /\ StatusOf(lastOp'.id) = "absent") =>
           /\ lastOp'.result = "ok"
           /\ UNCHANGED <<managerState, cancelled>>
      ]_vars

\* C10 (amended): cancelDownload on an id that is absent from the registry
\* changes no state and throws the not-found error; handleCancel catches that
\* error and still calls onCancel().
C10_Amended ==
    [][ /\ (lastOp'.op = "cancelDownload" /\ StatusOf(lastOp'.id) = "absent") =>
              /\ lastOp'.result = "NotFound"
              /\ UNCHANGED <<managerState, cancelled>>
        /\ (lastOp'.op = "handleCancel" /\ StatusOf(lastOp'.id) = "absent") =>
              /\ lastOp'.result = "errorLoggedOnCancel"
              /\ UNCHANGED <<managerState, cancelled>>
      ]_vars

\* An id was cancelled a second time.
C10_Witness ==
    /\ lastOp.op = "cancelDownload"
    /\ lastOp.result = "NotFound"
    /\ lastOp.id \in cancelled


\* -------------------------------------------- claims: registry invariants
\* C26: clearCompletedDownloads removes exactly the tasks whose status is
\* completed or failed and leaves every other task, its progress and its
\* ticker as they were.
C26_SweepRemovesExactlyTerminal ==
    [][ lastOp'.op = "clearCompletedDownloads" =>
          /\ DOMAIN activeDownloads' =
                 {id \in DOMAIN activeDownloads :
                     activeDownloads[id].status \notin {"completed", "failed"}}
          /\ \A id \in DOMAIN activeDownloads' :
                 activeDownloads'[id] = activeDownloads[id]
          /\ downloadIntervals' = downloadIntervals
          /\ timers' = timers
      ]_vars

\* A sweep has removed a task while a paused task stayed.
C26_Witness ==
    /\ lastOp.op = "clearCompletedDownloads"
    /\ issued \ (DOMAIN activeDownloads \cup cancelled) # {}
    /\ \E id \in DOMAIN activeDownloads :
          /\ activeDownloads[id].status = "paused"
          /\ activeDownloads[id].progress.downloadedBytes > 0

\* C27: the stored progress of every task agrees with the two progress
\* functions: percentage is calculatePercentage(downloadedBytes, totalBytes)
\* and estimatedTimeRemaining is calculateETA(totalBytes - downloadedBytes,
\* speed), also while the task is paused and after it has completed.
C27_ProgressMatchesFunctions ==
    \A id \in DOMAIN activeDownloads :
        LET p == activeDownloads[id].progress IN
        /\ p.percentage = calculatePercentage(p.downloadedBytes, p.totalBytes)
        /\ p.estimatedTimeRemaining =
               calculateETA(p.totalBytes - p.downloadedBytes, p.speed)

\* C28: a task has a live ticker registered in downloadIntervals exactly when
\* it is in the registry with status downloading, and no live ticker is
\* unregistered.
C28_TickerIffDownloading ==
    /\ \A id \in TaskIds :
          (/\ id \in DOMAIN downloadIntervals
           /\ downloadIntervals[id] \in DOMAIN timers)
             <=> StatusOf(id) = "downloading"
    /\ \A h \in DOMAIN timers :
          /\ timers[h].taskId \in DOMAIN downloadIntervals
          /\ downloadIntervals[timers[h].taskId] = h

\* One task is paused without a ticker while another downloads with one.
C28_Witness ==
    /\ \E id \in DOMAIN activeDownloads :
          /\ activeDownloads[id].status = "paused"
          /\ id \notin DOMAIN downloadIntervals
    /\ \E id \in DOMAIN activeDownloads :
          /\ activeDownloads[id].status = "downloading"
          /\ id \in DOMAIN downloadIntervals

\* C29: pausedAt is set exactly while the status is paused, completedAt
\* exactly when it is completed, and error only when it is failed.
C29_TimestampsMatchStatus ==
    \A id \in DOMAIN activeDownloads :
        LET task == activeDownloads[id] IN
        /\ (task.pausedAt # Undefined) <=> (task.status = "paused")
        /\ (task.completedAt # Undefined) <=> (task.status = "completed")
        /\ (task.error # Undefined) => (task.status = "failed")

\* A paused task has been resumed while another task is completed.
C29_Witness ==
    /\ lastOp.op = "resumeDownload"
    /\ lastOp.result = "ok"
    /\ activeDownloads[lastOp.id].pausedAt = Undefined
    /\ \E id \in DOMAIN activeDownloads :
          activeDownloads[id].completedAt # Undefined

\* C30: a completed task has percentage 100, downloadedBytes equal to
\* totalBytes and estimatedTimeRemaining 0, and a task becomes completed only
\* in a tick that fires for it while it is downloading.
C30_CompletedMeansAllBytes ==
    /\ [](\A id \in DOMAIN activeDownloads :
            activeDownloads[id].status = "completed" =>
                LET p == activeDownloads[id].progress IN
                /\ p.percentage = 100 * PctScale
                /\ p.downloadedBytes = p.totalBytes
                /\ p.estimatedTimeRemaining = 0)
    /\ [][ \A id \in DOMAIN activeDownloads' :
             (activeDownloads'[id].status = "completed"
                /\ StatusOf(id) # "completed") =>
                 /\ lastOp'.op = "tick"
                 /\ lastOp'.id = id
                 /\ StatusOf(id) = "downloading"
         ]_vars

\* A tick has completed a task of positive size.
C30_Witness ==
    /\ lastOp.op = "tick"
    /\ lastOp.result = "completed"
    /\ activeDownloads[lastOp.id].status = "completed"
    /\ activeDownloads[lastOp.id].progress.totalBytes > 0

\* ------------------------------------------------- claims: values handed out
\* C11: every value startDownload, startMP3Download, getDownloadTask,
\* getAllDownloads or getProgress hands to a caller is a snapshot copy: what
\* the caller reads through it is not changed by a later tick or transition,
\* and an assignment the caller makes to its status or progress does not
\* change the registry.
C11_HandedValuesAreSnapshots ==
    [][ held.kind # "none" =>
          /\ lastOp'.op # "write" =>
                View(held', activeDownloads') = View(held, activeDownloads)
          /\ lastOp'.op = "write" => activeDownloads' = activeDownloads
      ]_vars

\* ------------------------------------------------------- claims: progress
\* C12: every task created with a positive size estimate has, in every
\* reachable state, a percentage between 0 and 100 and a downloadedBytes
\* between 0 and totalBytes.
C12_ProgressWithinBounds ==
    \A id \in DOMAIN activeDownloads :
        LET p == activeDownloads[id].progress IN
        p.totalBytes > 0 =>
            /\ p.percentage >= 0
            /\ p.percentage <= 100 * PctScale
            /\ p.downloadedBytes >= 0
            /\ p.downloadedBytes <= p.totalBytes

\* A task of positive size is part-way through while another has completed.
C12_Witness ==
    /\ \E id \in DOMAIN activeDownloads :
          LET p == activeDownloads[id].progress IN
          /\ activeDownloads[id].status = "downloading"
          /\ p.downloadedBytes > 0
          /\ p.downloadedBytes < p.totalBytes
          /\ p.percentage > 0
          /\ p.percentage < 100 * PctScale
    /\ \E id \in DOMAIN activeDownloads :
          /\ activeDownloads[id].status = "completed"
          /\ activeDownloads[id].progress.totalBytes > 0

\* C13: for total > 0, calculatePercentage(downloaded, total) lies between 0
\* and 100 and does not decrease when downloaded grows with total fixed,
\* negative downloaded and downloaded beyond total included; for total <= 0
\* it is 0.
C13_PercentageBoundedAndMonotone ==
    [][ calc'.op = "percentage" =>
          /\ calc'.total > 0 =>
                /\ calc'.percentage >= 0
                /\ calc'.percentage <= 100 * PctScale
          /\ calc'.total <= 0 => calc'.percentage = 0
          /\ (calc.op = "percentage" /\ calc'.total = calc.total
                /\ calc'.downloaded >= calc.downloaded) =>
                calc'.percentage >= calc.percentage
      ]_vars

\* The percentage of a byte count beyond a positive total was calculated.
C13_Witness ==
    /\ calc.op = "percentage"
    /\ calc.total > 0
    /\ calc.downloaded > calc.total
    /\ calc.percentage = 100 * PctScale

\* C14: calculateETA(remaining, speed) is 0 when speed <= 0 or remaining <= 0,
\* and otherwise the least whole number of seconds in which speed covers
\* remaining.
C14_EtaIsCeiling ==
    calc.op = "eta" =>
        IF calc.speed <= 0 \/ calc.remaining <= 0
        THEN calc.eta = 0
        ELSE /\ calc.eta * calc.speed >= calc.remaining
             /\ (calc.eta - 1) * calc.speed < calc.remaining

\* An ETA was calculated for a remainder the speed does not divide.
C14_Witness ==
    /\ calc.op = "eta"
    /\ calc.speed > 1
    /\ calc.remaining > calc.speed
    /\ calc.remaining % calc.speed # 0
    /\ calc.eta = (calc.remaining \div calc.speed) + 1

\* ------------------------------------------------- claims: create requests
\* The option a complete request asks for is marked unavailable: the chosen
\* quality, or on the mp3 path the mp3 entry of the source (absent counts as
\* unavailable).
Unavailable(body) ==
    /\ body.hasVideoInfo
    /\ body.hasQuality
    /\ \/ ~body.quality.available
       \/ /\ body.quality.format = "mp3"
          /\ ~(body.hasMp3 /\ body.mp3.available)

\* C15: a create request whose option is marked unavailable is rejected with
\* QUALITY_UNAVAILABLE, adds no task and starts no ticker, on the mp4 path and
\* on the mp3 path.
C15_UnavailableIsRejected ==
    [][ (api' # api /\ Unavailable(api'.request)) =>
           /\ api'.response.code = "QUALITY_UNAVAILABLE"
           /\ UNCHANGED managerState
      ]_vars

\* A complete request asks for the mp3 entry of its source, the entry is
\* available, and its bitrate is below the floor (an absent bitrate reads as
\* 0).
BelowFloor(body) ==
    /\ body.hasVideoInfo
    /\ body.hasQuality
    /\ body.hasMp3
    /\ body.quality = body.mp3
    /\ body.mp3.available
    /\ body.mp3.bitrate < MIN_AUDIO_BITRATE

\* C16: a request for audio whose bitrate is below 128 kbps, any value from 0
\* to 127, is rejected with QUALITY_UNAVAILABLE and creates no task.
C16_LowBitrateIsRejected ==
    [][ (api' # api /\ BelowFloor(api'.request)) =>
           /\ api'.response.code = "QUALITY_UNAVAILABLE"
           /\ UNCHANGED managerState
      ]_vars

\* ------------------------------------------------- claims: ids and tokens
\* A step in which startDownload (directly or from startMP3Download) created a
\* task and started its ticker.
CreateStep ==
    /\ lastOp'.op \in {"startDownload", "startMP3Download"}
    /\ lastOp'.result = "ok"
    /\ nextHandle' # nextHandle

TargetHeight(quality) ==
    CASE quality = "360p" -> 360
      [] quality = "480p" -> 480
      [] quality = "720p" -> 720
      [] quality = "1080p" -> 1080
      [] quality = "4k" -> 2160

\* The streams of S that carry video at a height of at most T.
AtOrBelow(S, T) == {f \in S : f.hasVideo /\ f.height <= T}

\* The video stream the fallback rule asks for: one of the greatest height
\* not above the target, or the best combined stream when there is none.
FallsBack(S, T, video) ==
    /\ video # NoStream
    /\ IF AtOrBelow(S, T) # {}
       THEN /\ video \in AtOrBelow(S, T)
            /\ \A f \in AtOrBelow(S, T) : video.height >= f.height
       ELSE video = Best(Combined(S))

\* C18: for every quality label and every source that offers a combined
\* stream, a selector yields a selection: of the greatest quality not above
\* the requested one when there is such a stream, else the best combined
\* stream of the source.
C18_SelectorFallsBack ==
    LET S == selection.streams
        T == TargetHeight(selection.quality)
    IN Combined(S) # {} =>
         /\ selection.directiveDone =>
               FallsBack(S, T, selection.directive.video)
         /\ (selection.bestDone /\ ~selection.audioOnly) =>
               FallsBack(S, T, selection.best)

\* C19: for each of 360p, 480p, 720p, 1080p and 4k the video directive takes
\* the best combined stream not above the label's height when there is one,
\* and merges the best video-only stream not above it with the best audio
\* stream only when there is none.
C19_DirectivePrefersCombined ==
    LET S == selection.streams
        T == TargetHeight(selection.quality)
        combined == {f \in Combined(S) : f.height <= T}
        video == {f \in VideoOnly(S) : f.height <= T}
    IN selection.directiveDone =>
         IF combined # {}
         THEN selection.directive =
                  [kind |-> "single", video |-> Best(combined),
                   audio |-> Best(combined)]
         ELSE (video # {} /\ AudioOnly(S) # {}) =>
                  selection.directive =
                      [kind |-> "merged", video |-> Best(video),
                       audio |-> Best(AudioOnly(S))]

\* -------------------------------------------------- claims: download endpoint
\* The tool of request r failed, ran out of time, or left no file under the
\* work token.
ToolFailed(r) ==
    \/ tool[r].outcome \in {"nonzero", "timeout"}
    \/ tool[r].outcome = "ok" /\ ~tool[r].hasOutput

\* C1: when the handler has returned, on every exit path, no file whose name
\* begins with its work token remains in the scratch directory.
C1_NoTokenFileRemains ==
    \A r \in Requests :
        (pc[r] = "done" /\ req[r].fileId # <<>>) =>
            \A f \in files : ~StartsWith(f, req[r].fileId)

C20_ReadBeforeDelete ==
    /\ [](\A r \in Requests :
            resp[r].status = 200 =>
                /\ resp[r].body # <<>>
                /\ resp[r].body = req[r].target
                /\ StartsWith(resp[r].body, req[r].fileId))
    /\ [][ \A r \in Requests : \A f \in files \ files' :
             (req[r].fileId # <<>> /\ StartsWith(f, req[r].fileId)) =>
                 /\ pc[r] = "unlink"
                 /\ req[r].body = req[r].target
                 /\ req[r].body # <<>>
                 /\ resp[r].status = 0
         ]_vars

\* A file was served and is gone from the scratch directory.
C20_Witness ==
    \E r \in Requests :
        /\ resp[r].status = 200
        /\ resp[r].body # <<>>
        /\ resp[r].body \notin files

\* The request whose handler takes the step.
Acting(r) == req'[r] # req[r] \/ pc'[r] # pc[r]

\* C23: with two requests running under distinct work tokens in the shared
\* scratch directory, the cleanup of a request deletes only files whose names
\* begin with its own token, and a request reads only such a file: never a
\* file created under the other request's token.
C23_TokensIsolateRequests ==
    /\ [](\A r \in Requests : \A q \in Requests \ {r} :
            (req[r].target # <<>> /\ req[q].fileId # <<>>) =>
                /\ StartsWith(req[r].target, req[r].fileId)
                /\ ~StartsWith(req[r].target, req[q].fileId)
                /\ req[r].body # <<>> => req[r].body = req[r].target)
    /\ [][ \A r \in Requests : \A f \in files \ files' :
             Acting(r) =>
                 /\ StartsWith(f, req[r].fileId)
                 /\ \A q \in Requests \ {r} :
                       req[q].fileId # <<>> => ~StartsWith(f, req[q].fileId)
         ]_vars

\* One request has deleted the file it served while the file of a second
\* request, which is about to read it, is still in the scratch directory.
C23_Witness ==
    \E r \in Requests : \E q \in Requests \ {r} :
        /\ pc[r] = "unlink"
        /\ req[r].body # <<>>
        /\ req[r].body \notin files
        /\ pc[q] \in {"readExpected", "readMatch"}
        /\ req[q].target \in files

\* The tool of request r has exited with code 0 and the handler has returned.
SucceededAndDone(r) == pc[r] = "done" /\ tool[r].outcome = "ok"

\* An invocation ends in exactly one of a file response and a failure.
OneResponse(r) ==
    \/ resp[r].status = 200 /\ resp[r].error = "" /\ resp[r].body # <<>>
    \/ resp[r].status \in {400, 500} /\ resp[r].error # ""
                                     /\ resp[r].body = <<>>

\* C24 as stated: after a successful tool exit the handler returns a file
\* response whenever a file under the work token exists and the "file not
\* created" failure when none exists, and every invocation ends in exactly one
\* of the two kinds of response.
C24_Original ==
    \A r \in Requests :
        /\ pc[r] = "done" => OneResponse(r)
        /\ SucceededAndDone(r) =>
              IF tool[r].hasOutput
              THEN resp[r].status = 200
              ELSE resp[r] = ErrorResponse(500, "file not created")

\* C24 (amended): after a successful tool exit the handler reads the expected
\* file if it exists and otherwise a file found under the work token; it
\* returns that file unless listing the directory or reading the file fails,
\* and then returns a 500 failure; it returns "file not created" when no file
\* under the token exists; every invocation ends in exactly one response.
C24_Amended ==
    \A r \in Requests :
        /\ pc[r] = "done" => OneResponse(r)
        /\ pc[r] = "readExpected" =>
              /\ req[r].target = FileName(req[r].fileId, req[r].ext)
              /\ req[r].target \in files
        /\ pc[r] = "readMatch" =>
              /\ FileName(req[r].fileId, req[r].ext) \notin files
              /\ req[r].target \in files
              /\ StartsWith(req[r].target, req[r].fileId)
        /\ SucceededAndDone(r) =>
              /\ ~tool[r].hasOutput =>
                    resp[r] = ErrorResponse(500, "file not created")
              /\ (tool[r].hasOutput /\ ~req[r].ioError) =>
                    resp[r] = FileResponse(req[r].target)
              /\ (tool[r].hasOutput /\ req[r].ioError) =>
                    /\ resp[r].status = 500
                    /\ resp[r].error \in {"read error", "file not created"}

\* A file that does not have the expected name has been served.
C24_Witness ==
    \E r \in Requests :
        /\ SucceededAndDone(r)
        /\ resp[r].status = 200
        /\ resp[r].body # FileName(req[r].fileId, req[r].ext)
        /\ StartsWith(resp[r].body, req[r].fileId)

\* ------------------------------------------- claims: history and URL parser
\* C21: for every list of valid DownloadRecords, parsing the serialized list
\* returns the same records in the same order.
C21_RoundTripIsIdentity ==
    (/\ trip.op = "parsed"
     /\ \A i \in 1..Len(trip.records) :
           validateDownloadRecord(trip.records[i]))
        => trip.output = trip.records

\* Two different valid records, with characters that are escaped and a size
\* of several digits, have gone through the round trip.
C21_Witness ==
    /\ trip.op = "parsed"
    /\ Len(trip.records) = 2
    /\ \A i \in 1..2 : validateDownloadRecord(trip.records[i])
    /\ trip.records[1].title = <<"\\", "\"">>
    /\ trip.records[2].title = <<"\\", "a">>
    /\ trip.records[2].fileSize = 120

\* t is u without the white space around it.
Trimmed(u, t) ==
    /\ \E i \in 1..(Len(u) + 1) : \E j \in 0..Len(u) :
          /\ t = SubSeq(u, i, j)
          /\ \A k \in 1..(i - 1) : u[k] \in Whitespace
          /\ \A k \in (j + 1)..Len(u) : u[k] \in Whitespace
    /\ Len(t) > 0 => (t[1] \notin Whitespace /\ t[Len(t)] \notin Whitespace)

\* C22: parseURL(u) is non-null exactly when validateYouTubeURL(u) or
\* validateTikTokURL(u) holds; then its platform is youtube if
\* validateYouTubeURL(u) holds and tiktok otherwise, its videoId is
\* extractVideoId(u), and its originalUrl is u without surrounding white
\* space.
C22_ParseAgreesWithValidators ==
    link.op = "parseURL" =>
        LET u == link.url
            r == link.result
        IN /\ (r # NullURL) <=> (validateYouTubeURL(u) \/ validateTikTokURL(u))
           /\ r # NullURL =>
                 /\ r.platform = IF validateYouTubeURL(u) THEN "youtube"
                                 ELSE "tiktok"
                 /\ r.videoId = extractVideoId(u)
                 /\ r.videoId # NullId
                 /\ Trimmed(u, r.originalUrl)

\* A TikTok link pasted with white space around it has been parsed.
C22_Witness ==
    /\ link.op = "parseURL"
    /\ link.result.platform = "tiktok"
    /\ link.result.originalUrl # link.url
    /\ link.result.videoId = "7123"

\* C25: getHistory returns exactly the records saved and not deleted or
\* cleared since, most recently saved first; right after saveDownload(r) has
\* returned x, the first record of getHistory is x.
C25_HistoryIsWhatWasSaved ==
    /\ getHistory = store.saved
    /\ store.op = "saveDownload" =>
          /\ Len(getHistory) > 0
          /\ getHistory[1] = store.returned

====
